---------------------------- MODULE Spec2Model ----------------------------
(***************************************************************************)
(* qRest: SQL over REST.  A model of the discovery, grammar derivation,    *)
(* SQL translation and execution stages and of the two front-ends (CLI and *)
(* HTTP server) that drive them.                                           *)
(*                                                                         *)
(* SQL text, parameter names and paths are TLA+ strings and are processed  *)
(* character by character: the regular expressions of the translator are   *)
(* run by a backtracking matcher with Go's leftmost-first semantics, and   *)
(* the helpers of package strings are re-implemented on characters.        *)
(***************************************************************************)
EXTENDS Integers, Sequences, FiniteSets, TLC

(***************************************************************************)
(* Characters and the helpers of Go's package strings                      *)
(***************************************************************************)
LowerLetters == "abcdefghijklmnopqrstuvwxyz"

UpperLetters == "ABCDEFGHIJKLMNOPQRSTUVWXYZ"

DigitChars == "0123456789"

CharsOf(s) == {SubSeq(s, i, i) : i \in 1..Len(s)}

SpaceSet == {" ", "\t", "\n", "\r", "\f"}

DigitSet == CharsOf(DigitChars)

WordSet == CharsOf(LowerLetters) \cup CharsOf(UpperLetters) \cup DigitSet \cup {"_"}

UpperOf == [c \in CharsOf(LowerLetters) |->
              SubSeq(UpperLetters, CHOOSE i \in 1..26 : SubSeq(LowerLetters, i, i) = c,
                                   CHOOSE i \in 1..26 : SubSeq(LowerLetters, i, i) = c)]

LowerOf == [c \in CharsOf(UpperLetters) |->
              SubSeq(LowerLetters, CHOOSE i \in 1..26 : SubSeq(UpperLetters, i, i) = c,
                                   CHOOSE i \in 1..26 : SubSeq(UpperLetters, i, i) = c)]

DigitVal == [c \in DigitSet |-> (CHOOSE i \in 1..10 : SubSeq(DigitChars, i, i) = c) - 1]

\* strings.ToUpper and strings.ToLower, computed by halves to keep the
\* evaluation shallow
RECURSIVE ToUpper(_)
ToUpper(s) ==
    IF Len(s) = 0 THEN ""
    ELSE IF Len(s) = 1 THEN (IF s \in DOMAIN UpperOf THEN UpperOf[s] ELSE s)
    ELSE ToUpper(SubSeq(s, 1, Len(s) \div 2)) \o ToUpper(SubSeq(s, Len(s) \div 2 + 1, Len(s)))

RECURSIVE ToLower(_)
ToLower(s) ==
    IF Len(s) = 0 THEN ""
    ELSE IF Len(s) = 1 THEN (IF s \in DOMAIN LowerOf THEN LowerOf[s] ELSE s)
    ELSE ToLower(SubSeq(s, 1, Len(s) \div 2)) \o ToLower(SubSeq(s, Len(s) \div 2 + 1, Len(s)))

HasPrefix(s, p) == Len(p) <= Len(s) /\ SubSeq(s, 1, Len(p)) = p

HasSuffix(s, p) == Len(p) <= Len(s) /\ SubSeq(s, Len(s) - Len(p) + 1, Len(s)) = p

TrimPrefix(s, p) == IF HasPrefix(s, p) THEN SubSeq(s, Len(p) + 1, Len(s)) ELSE s

TrimSuffix(s, p) == IF HasSuffix(s, p) THEN SubSeq(s, 1, Len(s) - Len(p)) ELSE s

\* strings.Index, 1-based; 0 when sub does not occur in s
Index(s, sub) ==
    LET hits == {i \in 1..(Len(s) - Len(sub) + 1) : SubSeq(s, i, i + Len(sub) - 1) = sub}
    IN  IF hits = {} THEN 0 ELSE CHOOSE i \in hits : \A j \in hits : i <= j

StrContains(s, sub) == Index(s, sub) # 0

\* strings.Trim(s, cutset): cut leading and trailing characters of the set
TrimSet(s, cut) ==
    LET keep == {i \in 1..Len(s) : SubSeq(s, i, i) \notin cut}
    IN  IF keep = {} THEN ""
        ELSE SubSeq(s, CHOOSE i \in keep : \A j \in keep : i <= j,
                       CHOOSE i \in keep : \A j \in keep : i >= j)

TrimSpace(s) == TrimSet(s, SpaceSet)

\* strings.Split(s, sep) for a non-empty separator
RECURSIVE Split(_, _)
Split(s, sep) ==
    LET i == Index(s, sep)
    IN  IF i = 0 THEN <<s>>
        ELSE <<SubSeq(s, 1, i - 1)>> \o Split(SubSeq(s, i + Len(sep), Len(s)), sep)

\* strings.Fields(s): the maximal runs of non-space characters
RECURSIVE Fields(_)
Fields(s) ==
    LET t == TrimSpace(s)
        sp == {i \in 1..Len(t) : SubSeq(t, i, i) \in SpaceSet}
    IN  IF t = "" THEN <<>>
        ELSE IF sp = {} THEN <<t>>
        ELSE LET k == CHOOSE i \in sp : \A j \in sp : i <= j
             IN  <<SubSeq(t, 1, k - 1)>> \o Fields(SubSeq(t, k + 1, Len(t)))

\* the package-local contains(slice, item)
contains(slice, item) == \E i \in 1..Len(slice) : slice[i] = item

\* v := ...; the statements K that follow read v
With(v, K(_)) == K(v)

\* r, err := ...; if err != nil { return nil, err }; the statements K that
\* follow read r
Then(r, K(_)) == IF r.ok THEN K(r) ELSE r

\* what the first attempt gave if it succeeded, else what the second gives
OrElse(first, second) == IF first.ok THEN first ELSE second

(***************************************************************************)
(* Regular expressions (package regexp).  A pattern is a sequence of nodes *)
(* matched left to right by backtracking, alternatives tried in the order  *)
(* of preference of Go's leftmost-first matching.  All patterns of the     *)
(* program carry (?i): literals are stored in upper case and compared with *)
(* the upper-cased text.                                                   *)
(***************************************************************************)
Lit(s) == [t |-> "lit", s |-> s]

\* a repeated character class: c+ / c* (min 1 / 0), greedy or lazy
Rep(c, min, lazy) == [t |-> "rep", c |-> c, min |-> min, lazy |-> lazy]

Open(n) == [t |-> "open", n |-> n]

Close(n) == [t |-> "close", n |-> n]

\* (r): capture group n
Cap(n, r) == <<Open(n)>> \o r \o <<Close(n)>>

\* (?:r)?
Opt(r) == [t |-> "opt", r |-> r]

\* (?:r1|r2|...)
Alt(rs) == [t |-> "alt", rs |-> rs]

\* $
EndOfText == [t |-> "end"]

InClass(ch, c) ==
    CASE c = "s" -> ch \in SpaceSet          \* \s
      [] c = "w" -> ch \in WordSet           \* \w
      [] c = "d" -> ch \in DigitSet          \* \d
      [] c = "." -> ch # "\n"                \* .
      [] c = "^)" -> ch # ")"                \* [^)]

\* number of consecutive characters of class c in txt from position i on
RunLen(txt, i, c) ==
    LET stops == {j \in i..Len(txt) : ~InClass(SubSeq(txt, j, j), c)}
    IN  IF stops = {} THEN Len(txt) + 1 - i
        ELSE (CHOOSE j \in stops : \A k \in stops : j <= k) - i

NoMatch == [ok |-> FALSE]

NoCaps == [n \in 1..3 |-> <<0, 0>>]

RECURSIVE MatchAt(_, _, _, _, _)
RECURSIVE TryRep(_, _, _, _, _, _, _, _)
RECURSIVE TryAlt(_, _, _, _, _, _, _)
\* the match of pattern re at position i of txt (up is txt in upper case)
MatchAt(txt, up, re, i, caps) ==
    IF Len(re) = 0 THEN [ok |-> TRUE, e |-> i, caps |-> caps]
    ELSE LET h == Head(re)
             rest == Tail(re)
         IN  CASE h.t = "lit" ->
                    IF i + Len(h.s) - 1 <= Len(txt) /\ SubSeq(up, i, i + Len(h.s) - 1) = h.s
                    THEN MatchAt(txt, up, rest, i + Len(h.s), caps)
                    ELSE NoMatch
               [] h.t = "rep" ->
                    LET mx == RunLen(txt, i, h.c)
                    IN  IF mx < h.min THEN NoMatch
                        ELSE TryRep(txt, up, rest, i, caps, h.min, mx, h.lazy)
               [] h.t = "open" ->
                    MatchAt(txt, up, rest, i, [caps EXCEPT ![h.n] = <<i, i - 1>>])
               [] h.t = "close" ->
                    MatchAt(txt, up, rest, i, [caps EXCEPT ![h.n] = <<caps[h.n][1], i - 1>>])
               [] h.t = "opt" ->
                    OrElse(MatchAt(txt, up, h.r \o rest, i, caps),
                           MatchAt(txt, up, rest, i, caps))
               [] h.t = "alt" -> TryAlt(txt, up, h.rs, 1, rest, i, caps)
               [] h.t = "end" ->
                    IF i = Len(txt) + 1 THEN MatchAt(txt, up, rest, i, caps) ELSE NoMatch

\* a repetition taking between lo and hi characters, then the rest of the
\* pattern: a lazy repetition prefers the fewest characters, a greedy one the
\* most.  The range is searched by halves, in that order of preference.
TryRep(txt, up, rest, i, caps, lo, hi, lazy) ==
    IF lo = hi THEN MatchAt(txt, up, rest, i + lo, caps)
    ELSE LET mid == (lo + hi) \div 2
         IN  IF lazy
             THEN OrElse(TryRep(txt, up, rest, i, caps, lo, mid, lazy),
                         TryRep(txt, up, rest, i, caps, mid + 1, hi, lazy))
             ELSE OrElse(TryRep(txt, up, rest, i, caps, mid + 1, hi, lazy),
                         TryRep(txt, up, rest, i, caps, lo, mid, lazy))

TryAlt(txt, up, rs, k, rest, i, caps) ==
    IF k > Len(rs) THEN NoMatch
    ELSE OrElse(MatchAt(txt, up, rs[k] \o rest, i, caps),
                TryAlt(txt, up, rs, k + 1, rest, i, caps))

\* the leftmost match of re in txt among the start positions lo..hi
RECURSIVE Search(_, _, _, _, _)
Search(txt, up, re, lo, hi) ==
    IF lo = hi
    THEN With(MatchAt(txt, up, re, lo, NoCaps),
              LAMBDA r : IF r.ok THEN [ok |-> TRUE, s |-> lo, e |-> r.e, caps |-> r.caps]
                         ELSE NoMatch)
    ELSE OrElse(Search(txt, up, re, lo, (lo + hi) \div 2),
                Search(txt, up, re, (lo + hi) \div 2 + 1, hi))

\* regexp.FindStringSubmatch: ok is "matches != nil"; g[n] is matches[n],
\* the empty string for a group that took no part in the match
FindStringSubmatch(re, txt) ==
    With(Search(txt, ToUpper(txt), re, 1, Len(txt) + 1),
         LAMBDA r : IF ~r.ok THEN [ok |-> FALSE, g |-> <<"", "", "">>]
                    ELSE [ok |-> TRUE,
                          g  |-> [n \in 1..3 |-> IF r.caps[n] = <<0, 0>> THEN ""
                                                 ELSE SubSeq(txt, r.caps[n][1],
                                                             r.caps[n][2])]])

(***************************************************************************)
(* Values (interface{} holding an int, a float64 or a string)              *)
(***************************************************************************)
IntVal(n) == [k |-> "int", n |-> n]

FloatVal(s, finite) == [k |-> "float", s |-> s, finite |-> finite]

StrVal(s) == [k |-> "str", s |-> s]

AllDigits(s) == s # "" /\ \A i \in 1..Len(s) : SubSeq(s, i, i) \in DigitSet

RECURSIVE DigitsToNat(_)
DigitsToNat(s) ==
    IF s = "" THEN 0
    ELSE 10 * DigitsToNat(SubSeq(s, 1, Len(s) - 1)) + DigitVal[SubSeq(s, Len(s), Len(s))]

\* the longest numeral the model gives a value; the inputs' numerals are at
\* most this long, or too long for an int64
MaxIntDigits == 9

\* strconv.Atoi: an optional sign and decimal digits; a numeral that does
\* not fit the integer type is a range error
Atoi(s) ==
    LET signed == s # "" /\ Head(s) \in {"+", "-"}
        digits == IF signed THEN Tail(s) ELSE s
    IN  IF ~AllDigits(digits) \/ Len(digits) > MaxIntDigits THEN [ok |-> FALSE, n |-> 0]
        ELSE [ok |-> TRUE,
              n  |-> IF signed /\ Head(s) = "-" THEN 0 - DigitsToNat(digits)
                     ELSE DigitsToNat(digits)]

\* strconv.ParseFloat, for the decimal forms digits[.digits] and the
\* special values: NaN, Inf and Infinity are accepted in any case
ParseFloat(s) ==
    LET signed == s # "" /\ Head(s) \in {"+", "-"}
        body == IF signed THEN Tail(s) ELSE s
        dot == Index(body, ".")
        int == IF dot = 0 THEN body ELSE SubSeq(body, 1, dot - 1)
        frac == IF dot = 0 THEN "" ELSE SubSeq(body, dot + 1, Len(body))
        low == ToLower(body)
    IN  IF low \in {"inf", "infinity"} \/ (~signed /\ low = "nan")
        THEN [ok |-> TRUE, v |-> FloatVal(low, FALSE)]
        ELSE IF (int # "" \/ frac # "") /\ (int = "" \/ AllDigits(int))
                /\ (frac = "" \/ AllDigits(frac))
        THEN [ok |-> TRUE, v |-> FloatVal(s, TRUE)]
        ELSE [ok |-> FALSE, v |-> FloatVal("", TRUE)]

\* fmt.Sprintf("%v", value)
Sprint(v) ==
    CASE v.k = "int" -> ToString(v.n)
      [] v.k = "float" -> IF v.finite THEN v.s ELSE IF v.s = "nan" THEN "NaN" ELSE "+Inf"
      [] v.k = "str" -> v.s

(***************************************************************************)
(* The translator (internal/translator/simple_sql.go)                      *)
(***************************************************************************)
Ws1 == Rep("s", 1, FALSE)

Ws0 == Rep("s", 0, FALSE)

\* (?i)SELECT\s+(.+?)\s+FROM
reSelect == <<Lit("SELECT"), Ws1>> \o Cap(1, <<Rep(".", 1, TRUE)>>) \o <<Ws1, Lit("FROM")>>

\* (?i)FROM\s+(\w+)
reFrom == <<Lit("FROM"), Ws1>> \o Cap(1, <<Rep("w", 1, FALSE)>>)

\* (?:\s*;|$)
reStmtEnd == Alt(<< <<Ws0, Lit(";")>>, <<EndOfText>> >>)

\* (?i)WHERE\s+(.+?)(?:\s+ORDER\s+BY|\s+LIMIT|\s*;|$)
reWhere ==
    <<Lit("WHERE"), Ws1>> \o Cap(1, <<Rep(".", 1, TRUE)>>)
    \o <<Alt(<< <<Ws1, Lit("ORDER"), Ws1, Lit("BY")>>, <<Ws1, Lit("LIMIT")>>,
               <<Ws0, Lit(";")>>, <<EndOfText>> >>)>>

\* (?i)(\w+)\s*OP\s*(.+) with OP the quoted operator
reCondition(op) ==
    Cap(1, <<Rep("w", 1, FALSE)>>) \o <<Ws0, Lit(op), Ws0>> \o Cap(2, <<Rep(".", 1, FALSE)>>)

\* (?i)(\w+)\s+BETWEEN\s+(.+?)\s+AND\s+(.+)
reBetween ==
    Cap(1, <<Rep("w", 1, FALSE)>>) \o <<Ws1, Lit("BETWEEN"), Ws1>>
    \o Cap(2, <<Rep(".", 1, TRUE)>>) \o <<Ws1, Lit("AND"), Ws1>>
    \o Cap(3, <<Rep(".", 1, FALSE)>>)

\* (?i)ORDER\s+BY\s+(.+?)(?:\s+LIMIT|\s*;|$)
reOrderBy ==
    <<Lit("ORDER"), Ws1, Lit("BY"), Ws1>> \o Cap(1, <<Rep(".", 1, TRUE)>>)
    \o <<Alt(<< <<Ws1, Lit("LIMIT")>>, <<Ws0, Lit(";")>>, <<EndOfText>> >>)>>

\* (?i)LIMIT\s+(\d+)(?:\s+OFFSET\s+(\d+))?
reLimit ==
    <<Lit("LIMIT"), Ws1>> \o Cap(1, <<Rep("d", 1, FALSE)>>)
    \o <<Opt(<<Ws1, Lit("OFFSET"), Ws1>> \o Cap(2, <<Rep("d", 1, FALSE)>>))>>

\* (?i)INSERT\s+INTO\s+(\w+)\s*\(([^)]+)\)\s*VALUES\s*\(([^)]+)\)
reInsert ==
    <<Lit("INSERT"), Ws1, Lit("INTO"), Ws1>> \o Cap(1, <<Rep("w", 1, FALSE)>>)
    \o <<Ws0, Lit("(")>> \o Cap(2, <<Rep("^)", 1, FALSE)>>)
    \o <<Lit(")"), Ws0, Lit("VALUES"), Ws0, Lit("(")>> \o Cap(3, <<Rep("^)", 1, FALSE)>>)
    \o <<Lit(")")>>

\* (?i)UPDATE\s+(\w+)\s+SET\s+(.+?)(?:\s+WHERE\s+(.+?))?(?:\s*;|$)
reUpdate ==
    <<Lit("UPDATE"), Ws1>> \o Cap(1, <<Rep("w", 1, FALSE)>>) \o <<Ws1, Lit("SET"), Ws1>>
    \o Cap(2, <<Rep(".", 1, TRUE)>>)
    \o <<Opt(<<Ws1, Lit("WHERE"), Ws1>> \o Cap(3, <<Rep(".", 1, TRUE)>>)), reStmtEnd>>

\* (?i)DELETE\s+FROM\s+(\w+)(?:\s+WHERE\s+(.+?))?(?:\s*;|$)
reDelete ==
    <<Lit("DELETE"), Ws1, Lit("FROM"), Ws1>> \o Cap(1, <<Rep("w", 1, FALSE)>>)
    \o <<Opt(<<Ws1, Lit("WHERE"), Ws1>> \o Cap(2, <<Rep(".", 1, TRUE)>>)), reStmtEnd>>

Failure(msg) == [ok |-> FALSE, err |-> msg]

\* query := &ParsedQuery{Updates: make(map[string]interface{})}
NewParsedQuery ==
    [QueryType |-> "", TableName |-> "", Columns |-> <<>>, Values |-> <<>>,
     Updates |-> <<>>, Conditions |-> <<>>, OrderBy |-> <<>>, Limit |-> 0, Offset |-> 0]

isColumnAllowed(g, column) == contains(g.AllowedColumns, column)

parseValue(valueStr) ==
    With(TrimSet(valueStr, {"'", "\""}),
         LAMBDA v : With(Atoi(v), LAMBDA i :
                    IF i.ok THEN IntVal(i.n)
                    ELSE With(ParseFloat(v), LAMBDA f : IF f.ok THEN f.v ELSE StrVal(v))))

\* the column loop of parseSelect: the first column the grammar does not
\* allow fails the statement.  The cut set of strings.Trim also holds the
\* backquote, a character no TLA+ string can hold and no input here contains
RECURSIVE selectColumns(_, _, _)
selectColumns(g, columns, acc) ==
    IF Len(columns) = 0 THEN [ok |-> TRUE, Columns |-> acc]
    ELSE With(TrimSet(TrimSpace(Head(columns)), {"\"", "'"}), LAMBDA columnName :
           IF ~isColumnAllowed(g, columnName) THEN Failure("column not available")
           ELSE selectColumns(g, Tail(columns), Append(acc, columnName)))

parseSelect(g, sql, query) ==
    With(FindStringSubmatch(reSelect, sql), LAMBDA matches :
      IF ~matches.ok THEN Failure("invalid SELECT statement")
      ELSE With(TrimSpace(matches.g[1]), LAMBDA columnsStr :
        IF columnsStr = "*"
        THEN [ok |-> TRUE, q |-> [query EXCEPT !.Columns = query.Columns \o g.AllowedColumns]]
        ELSE Then(selectColumns(g, Split(columnsStr, ","), query.Columns), LAMBDA r :
               [ok |-> TRUE, q |-> [query EXCEPT !.Columns = r.Columns]])))

parseFrom(sql, query) ==
    With(FindStringSubmatch(reFrom, sql), LAMBDA matches :
      IF ~matches.ok THEN Failure("no FROM clause found")
      ELSE [ok |-> TRUE, q |-> [query EXCEPT !.TableName = TrimSpace(matches.g[1])]])

Operators == <<">=", "<=", "!=", "<>", ">", "<", "=", "LIKE", "ILIKE">>

\* the checks of parseCondition on a matched condition: the column must be
\* a column of the grammar and must allow the operator op; the condition
\* that is returned carries the operator stored
checkedCondition(g, column, op, stored, valueStr, unsupported) ==
    IF ~isColumnAllowed(g, column) THEN Failure("column not available for filtering")
    ELSE IF column \notin DOMAIN g.WhereClause.AllowedColumns
            \/ ~contains(g.WhereClause.AllowedColumns[column], op)
    THEN Failure(unsupported)
    ELSE [ok |-> TRUE,
          c  |-> [Column |-> column, Operator |-> stored, Value |-> parseValue(valueStr)]]

\* the BETWEEN branch of parseCondition: only the lower bound is kept
parseBetween(g, condStr) ==
    With(FindStringSubmatch(reBetween, condStr), LAMBDA matches :
      IF ~matches.ok THEN Failure("unsupported condition")
      ELSE checkedCondition(g, TrimSpace(matches.g[1]), "BETWEEN", ">=",
                            TrimSpace(matches.g[2]),
                            "BETWEEN operator not supported for column"))

\* the operator loop of parseCondition: the first operator of the list whose
\* pattern matches anywhere in the condition decides
RECURSIVE parseConditionFrom(_, _, _)
parseConditionFrom(g, condStr, k) ==
    IF k > Len(Operators) THEN parseBetween(g, condStr)
    ELSE With(FindStringSubmatch(reCondition(Operators[k]), condStr), LAMBDA matches :
           IF ~matches.ok THEN parseConditionFrom(g, condStr, k + 1)
           ELSE checkedCondition(g, TrimSpace(matches.g[1]), Operators[k], Operators[k],
                                 TrimSpace(matches.g[2]),
                                 "operator not supported for column"))

parseCondition(g, condStr) == parseConditionFrom(g, condStr, 1)

RECURSIVE whereConditions(_, _, _)
whereConditions(g, conditions, acc) ==
    IF Len(conditions) = 0 THEN [ok |-> TRUE, Conditions |-> acc]
    ELSE Then(parseCondition(g, TrimSpace(Head(conditions))), LAMBDA r :
           whereConditions(g, Tail(conditions), Append(acc, r.c)))

parseWhere(g, sql, query) ==
    With(FindStringSubmatch(reWhere, sql), LAMBDA matches :
      IF ~matches.ok THEN [ok |-> TRUE, q |-> query]
      ELSE Then(whereConditions(g, Split(TrimSpace(matches.g[1]), " AND "),
                                query.Conditions),
                LAMBDA r : [ok |-> TRUE, q |-> [query EXCEPT !.Conditions = r.Conditions]]))

RECURSIVE orderFields(_, _, _)
orderFields(g, fields, acc) ==
    IF Len(fields) = 0 THEN [ok |-> TRUE, OrderBy |-> acc]
    ELSE With(Fields(TrimSpace(Head(fields))), LAMBDA parts :
           IF Len(parts) = 0 THEN orderFields(g, Tail(fields), acc)
           ELSE IF ~contains(g.OrderBy.AllowedColumns, parts[1])
           THEN Failure("column not available for ordering")
           ELSE orderFields(g, Tail(fields),
                    Append(acc, [Column |-> parts[1],
                                 Order |-> IF Len(parts) > 1 /\ ToUpper(parts[2]) = "DESC"
                                           THEN "DESC" ELSE "ASC"])))

parseOrderBy(g, sql, query) ==
    With(FindStringSubmatch(reOrderBy, sql), LAMBDA matches :
      IF ~matches.ok THEN [ok |-> TRUE, q |-> query]
      ELSE Then(orderFields(g, Split(TrimSpace(matches.g[1]), ","), query.OrderBy),
                LAMBDA r : [ok |-> TRUE, q |-> [query EXCEPT !.OrderBy = r.OrderBy]]))

\* the OFFSET part of parseLimit, on a query that has its limit
parseOffset(offsetStr, query) ==
    IF offsetStr = "" THEN [ok |-> TRUE, q |-> query]
    ELSE With(Atoi(offsetStr), LAMBDA offset :
           IF ~offset.ok THEN Failure("invalid OFFSET value")
           ELSE [ok |-> TRUE, q |-> [query EXCEPT !.Offset = offset.n]])

parseLimit(g, sql, query) ==
    With(FindStringSubmatch(reLimit, sql), LAMBDA matches :
      IF ~matches.ok THEN [ok |-> TRUE, q |-> [query EXCEPT !.Limit = g.Limit.DefaultLimit]]
      ELSE With(Atoi(matches.g[1]), LAMBDA limit :
             IF ~limit.ok THEN Failure("invalid LIMIT value")
             ELSE IF limit.n > g.Limit.MaxLimit
             THEN Failure("LIMIT exceeds maximum allowed limit")
             ELSE parseOffset(matches.g[2], [query EXCEPT !.Limit = limit.n])))

parseSelectQuery(g, sql, query) ==
    Then(parseSelect(g, sql, query), LAMBDA s1 :
    Then(parseFrom(sql, s1.q), LAMBDA s2 :
      IF s2.q.TableName # g.TableName THEN Failure("table not found")
      ELSE Then(parseWhere(g, sql, s2.q), LAMBDA s3 :
           Then(parseOrderBy(g, sql, s3.q), LAMBDA s4 :
           parseLimit(g, sql, s4.q)))))

\* m[key] = value on a Go map
MapPut(m, key, value) == [x \in DOMAIN m \cup {key} |-> IF x = key THEN value ELSE m[x]]

RECURSIVE trimAll(_)
trimAll(parts) ==
    IF Len(parts) = 0 THEN <<>> ELSE <<TrimSpace(Head(parts))>> \o trimAll(Tail(parts))

RECURSIVE parseValues(_)
parseValues(parts) ==
    IF Len(parts) = 0 THEN <<>>
    ELSE <<parseValue(TrimSpace(Head(parts)))>> \o parseValues(Tail(parts))

\* the column and value lists of parseInsertQuery
insertColumns(query, columns, values) ==
    IF Len(values) # Len(query.Columns) + Len(columns)
    THEN Failure("column count doesn't match value count")
    ELSE [ok |-> TRUE,
          q  |-> [query EXCEPT !.Columns = query.Columns \o columns,
                               !.Values = query.Values \o parseValues(values)]]

parseInsertQuery(g, sql, query) ==
    With(FindStringSubmatch(reInsert, sql), LAMBDA matches :
      IF ~matches.ok THEN Failure("invalid INSERT statement format")
      ELSE IF TrimSpace(matches.g[1]) # TrimSuffix(g.TableName, "_post")
      THEN Failure("table not found for INSERT")
      ELSE insertColumns([query EXCEPT !.TableName = TrimSpace(matches.g[1])],
                         trimAll(Split(matches.g[2], ",")), Split(matches.g[3], ",")))

\* the SET loop of parseUpdateQuery: each assignment must split on "=" into
\* exactly two parts; a later assignment to a column replaces an earlier one
RECURSIVE setAssignments(_, _)
setAssignments(assignments, query) ==
    IF Len(assignments) = 0 THEN [ok |-> TRUE, q |-> query]
    ELSE With(Split(Head(assignments), "="), LAMBDA parts :
           IF Len(parts) # 2 THEN Failure("invalid SET clause")
           ELSE setAssignments(Tail(assignments),
                    [query EXCEPT !.Updates = MapPut(query.Updates, TrimSpace(parts[1]),
                                                     parseValue(TrimSpace(parts[2])))]))

\* the WHERE part of parseUpdateQuery and parseDeleteQuery: one condition
appendCondition(g, wherePart, query) ==
    Then(parseCondition(g, wherePart), LAMBDA r :
      [ok |-> TRUE, q |-> [query EXCEPT !.Conditions = Append(query.Conditions, r.c)]])

parseUpdateQuery(g, sql, query) ==
    With(FindStringSubmatch(reUpdate, sql), LAMBDA matches :
      IF ~matches.ok THEN Failure("invalid UPDATE statement format")
      ELSE IF TrimSpace(matches.g[1]) # TrimSuffix(TrimSuffix(g.TableName, "_put"), "_patch")
      THEN Failure("table not found for UPDATE")
      ELSE Then(setAssignments(Split(matches.g[2], ","),
                               [query EXCEPT !.TableName = TrimSpace(matches.g[1])]),
                LAMBDA sets : IF matches.g[3] = "" THEN sets
                              ELSE appendCondition(g, matches.g[3], sets.q)))

\* parseDeleteQuery without its last branch: a DELETE that has no WHERE
\* clause is accepted
parseDeleteUnguarded(g, sql, query) ==
    With(FindStringSubmatch(reDelete, sql), LAMBDA matches :
      IF ~matches.ok THEN Failure("invalid DELETE statement format")
      ELSE IF TrimSpace(matches.g[1]) # TrimSuffix(g.TableName, "_delete")
      THEN Failure("table not found for DELETE")
      ELSE IF matches.g[2] = ""
      THEN [ok |-> TRUE, q |-> [query EXCEPT !.TableName = TrimSpace(matches.g[1])]]
      ELSE appendCondition(g, matches.g[2],
                           [query EXCEPT !.TableName = TrimSpace(matches.g[1])]))

parseDeleteQuery(g, sql, query) ==
    With(FindStringSubmatch(reDelete, sql), LAMBDA matches :
      IF ~matches.ok THEN Failure("invalid DELETE statement format")
      ELSE IF TrimSpace(matches.g[1]) # TrimSuffix(g.TableName, "_delete")
      THEN Failure("table not found for DELETE")
      ELSE IF matches.g[2] = ""
      THEN Failure("DELETE without WHERE clause is not allowed for safety")
      ELSE appendCondition(g, matches.g[2],
                           [query EXCEPT !.TableName = TrimSpace(matches.g[1])]))

\* the statement kinds of ParseSQL, on the normalised text
parseStatement(g, sql, sqlUpper) ==
    CASE HasPrefix(sqlUpper, "SELECT") ->
           parseSelectQuery(g, sql, [NewParsedQuery EXCEPT !.QueryType = "SELECT"])
      [] HasPrefix(sqlUpper, "INSERT") ->
           parseInsertQuery(g, sql, [NewParsedQuery EXCEPT !.QueryType = "INSERT"])
      [] HasPrefix(sqlUpper, "UPDATE") ->
           parseUpdateQuery(g, sql, [NewParsedQuery EXCEPT !.QueryType = "UPDATE"])
      [] HasPrefix(sqlUpper, "DELETE") ->
           parseDeleteQuery(g, sql, [NewParsedQuery EXCEPT !.QueryType = "DELETE"])
      [] OTHER -> Failure("unsupported SQL statement type")

\* a translator that records the expansion of * in the grammar it holds
parseAppending(g, text) ==
    IF HasPrefix(ToUpper(TrimSpace(text)), "SELECT")
    THEN [g EXCEPT !.AllowedColumns = Append(@, "*")]
    ELSE g

\* the grammar held by the translator once ParseSQL has returned for a
\* text.  NewSimpleSQLTranslator copies the struct, whose slices and maps
\* stay shared with the caller's value; ParseSQL and the functions it calls
\* assign to query only and read t.grammar (for * the slice AllowedColumns
\* is stored in query.Columns, and nothing writes through it)
grammarAfterParse(g, text) == g

\* ParseSQL(sql): the validated query, or the validation error
ParseSQL(g, text) ==
    With(IF HasSuffix(TrimSpace(text), ";") THEN TrimSpace(text) ELSE TrimSpace(text) \o ";",
         LAMBDA sql : parseStatement(g, sql, ToUpper(sql)))

(***************************************************************************)
(* Discovery (package parser): an interface description is a map from path *)
(* to path item, a path item a map from verb to operation.                 *)
(***************************************************************************)
NoSchema == [Type |-> "nil"]

\* a schema that is an object with the given property names
ObjectSchema(props) == [Type |-> "object", Properties |-> props, Ref |-> "", Items |-> NoSchema]

ArraySchema(items) == [Type |-> "array", Properties |-> <<>>, Ref |-> "", Items |-> items]

RefSchema(ref) == [Type |-> "", Properties |-> <<>>, Ref |-> ref, Items |-> NoSchema]

\* resolveSchemaRef: the definition named by the last segment of the reference
resolveSchemaRef(definitions, ref) ==
    LET parts == Split(ref, "/")
        defName == parts[Len(parts)]
    IN  IF defName \in DOMAIN definitions THEN definitions[defName] ELSE NoSchema

RECURSIVE extractColumnsFromSchema(_, _)
extractColumnsFromSchema(definitions, schema) ==
    IF schema = NoSchema THEN <<>>
    ELSE IF schema.Type = "array" /\ schema.Items # NoSchema
    THEN extractColumnsFromSchema(definitions, schema.Items)
    ELSE LET columns == IF schema.Type = "object" THEN schema.Properties ELSE <<>>
         IN  IF schema.Ref # "" /\ resolveSchemaRef(definitions, schema.Ref) # NoSchema
             THEN extractColumnsFromSchema(definitions, resolveSchemaRef(definitions, schema.Ref))
             ELSE columns

\* the schema of the 200 response, NoSchema when the operation declares none
extractResponseColumns(definitions, operation) ==
    extractColumnsFromSchema(definitions, operation.Response)

extractTableName(path) ==
    LET parts == Split(TrimPrefix(path, "/"), "/")
        ok == {i \in 1..Len(parts) :
                 /\ ~HasPrefix(parts[i], "{") /\ ~HasSuffix(parts[i], "}")
                 /\ parts[i] \notin {"api", "v1", "v2", "v3"}}
    IN  IF ok = {} THEN "" ELSE parts[CHOOSE i \in ok : \A j \in ok : i >= j]

detectOperators(paramName, paramType) ==
    LET name == ToLower(paramName)
        numeric == paramType \in {"integer", "number"}
                   \/ StrContains(name, "date") \/ StrContains(name, "time")
        ranges ==
            (IF HasSuffix(name, "_gt") \/ HasSuffix(name, "_greater") THEN <<">">> ELSE <<>>)
            \o (IF HasSuffix(name, "_gte") \/ HasSuffix(name, "_min") THEN <<">=">> ELSE <<>>)
            \o (IF HasSuffix(name, "_lt") \/ HasSuffix(name, "_less") THEN <<"<">> ELSE <<>>)
            \o (IF HasSuffix(name, "_lte") \/ HasSuffix(name, "_max") THEN <<"<=">> ELSE <<>>)
            \o (IF HasSuffix(name, "_between") THEN <<"BETWEEN">> ELSE <<>>)
        afterNumeric ==
            IF ~numeric THEN <<"=">>
            ELSE IF Len(ranges) = 0 THEN <<"=", ">", ">=", "<", "<=">>
            ELSE <<"=">> \o ranges
        strings ==
            IF paramType # "string" THEN <<>>
            ELSE (IF StrContains(name, "search") \/ StrContains(name, "query")
                     \/ StrContains(name, "filter") \/ StrContains(name, "name")
                  THEN <<"LIKE", "ILIKE">> ELSE <<>>)
                 \o (IF HasSuffix(name, "_in") THEN <<"IN">> ELSE <<>>)
        nots == IF HasSuffix(name, "_not") \/ HasSuffix(name, "_ne")
                THEN <<"!=", "<>">> ELSE <<>>
    IN  afterNumeric \o strings \o nots

isLimitName(name) ==
    StrContains(ToLower(name), "limit") \/ StrContains(ToLower(name), "size")
    \/ StrContains(ToLower(name), "per_page")

isPageName(name) ==
    StrContains(ToLower(name), "page") \/ StrContains(ToLower(name), "offset")

\* what parseOperation keeps of a parameter of the description
parsedParameter(param) ==
    [Name |-> param.Name, Type |-> param.Type, Location |-> param.In,
     Required |-> param.Required, Format |-> param.Format, Enum |-> param.Enum,
     Operators |-> detectOperators(param.Name, param.Type)]

\* a limit parameter turns paging on and may set the maximum
limitDetected(capability, param) ==
    IF isLimitName(param.Name)
    THEN [capability EXCEPT !.HasPaging = TRUE, !.LimitParam = param.Name,
                            !.MaxResults = IF param.HasMaximum THEN param.Maximum
                                           ELSE capability.MaxResults]
    ELSE capability

pageDetected(capability, param) ==
    IF isPageName(param.Name)
    THEN [capability EXCEPT !.HasPaging = TRUE, !.PageParam = param.Name]
    ELSE capability

\* the parameter loop of parseOperation: query parameters are kept, and the
\* pagination parameters are recorded on the capability
RECURSIVE parseParameters(_, _)
parseParameters(params, capability) ==
    IF Len(params) = 0 THEN capability
    ELSE parseParameters(Tail(params),
             IF Head(params).In # "query" THEN capability
             ELSE pageDetected(
                      limitDetected(
                          [capability EXCEPT !.Parameters =
                               Append(capability.Parameters, parsedParameter(Head(params)))],
                          Head(params)),
                      Head(params)))

NoCapability == [TableName |-> ""]

parseOperation(doc, baseURL, path, method) ==
    With(extractTableName(path), LAMBDA tableName :
      IF tableName = "" THEN NoCapability
      ELSE [parseParameters(doc.paths[path][method].Parameters,
                [Path |-> path, Method |-> method, Parameters |-> <<>>,
                 ResponseColumns |-> <<>>,
                 TableName |-> IF method # "GET" THEN tableName \o "_" \o ToLower(method)
                               ELSE tableName,
                 BaseURL |-> baseURL, MaxResults |-> 0, HasPaging |-> FALSE,
                 PageParam |-> "", LimitParam |-> ""])
              EXCEPT !.ResponseColumns =
                         extractResponseColumns(doc.definitions, doc.paths[path][method])])

Verbs == <<"GET", "POST", "PUT", "PATCH", "DELETE">>

\* the capabilities of one path item, verb by verb in the order of the code
RECURSIVE pathCapabilities(_, _, _, _)
pathCapabilities(doc, baseURL, path, k) ==
    IF k > Len(Verbs) THEN <<>>
    ELSE (IF Verbs[k] \notin DOMAIN doc.paths[path] THEN <<>>
          ELSE With(parseOperation(doc, baseURL, path, Verbs[k]), LAMBDA capability :
                 IF capability # NoCapability THEN <<capability>> ELSE <<>>))
         \o pathCapabilities(doc, baseURL, path, k + 1)

\* ParseCapabilities ranges over the map of paths: order is the order in
\* which this run of the range statement visits them
RECURSIVE ParseCapabilities(_, _, _)
ParseCapabilities(doc, baseURL, order) ==
    IF Len(order) = 0 THEN <<>>
    ELSE pathCapabilities(doc, baseURL, Head(order), 1)
         \o ParseCapabilities(doc, baseURL, Tail(order))

(***************************************************************************)
(* Grammar derivation (package grammar)                                    *)
(***************************************************************************)
OperatorSuffixes ==
    <<"_gt", "_gte", "_lt", "_lte", "_ne", "_not", "_in", "_like", "_between", "_min", "_max">>

\* extractColumnName: the lower-cased name without the first suffix of the
\* list it ends with; the name as written when it ends with none
extractColumnName(paramName) ==
    LET name == ToLower(paramName)
        hits == {k \in 1..Len(OperatorSuffixes) : HasSuffix(name, OperatorSuffixes[k])}
    IN  IF hits = {} THEN paramName
        ELSE TrimSuffix(name, OperatorSuffixes[CHOOSE k \in hits : \A j \in hits : k <= j])

isPaginationParam(paramName) ==
    \E w \in {"limit", "offset", "page", "per_page", "page_size", "size"} :
        StrContains(ToLower(paramName), w)

\* the suggestions generateSuggestions makes for one parameter
suggestionsFor(param, columnName) ==
    (IF (param.Type \in {"integer", "number"} \/ StrContains(ToLower(param.Name), "date"))
        /\ ~\E op \in {">", ">=", "<", "<="} : contains(param.Operators, op)
     THEN <<"Add range filtering for '" \o columnName \o "'">> ELSE <<>>)
    \o (IF param.Type = "string" /\ ~contains(param.Operators, "LIKE")
        THEN <<"Add partial text search for '" \o columnName \o "'">> ELSE <<>>)
    \o (IF Len(param.Enum) > 0 /\ ~contains(param.Operators, "IN")
        THEN <<"Add multiple value filtering for '" \o columnName \o "'">> ELSE <<>>)

RECURSIVE paramSuggestions(_)
paramSuggestions(params) ==
    IF Len(params) = 0 THEN <<>>
    ELSE suggestionsFor(Head(params), extractColumnName(Head(params).Name))
         \o paramSuggestions(Tail(params))

generateSuggestions(capability) ==
    paramSuggestions(capability.Parameters)
    \o (IF ~capability.HasPaging THEN <<"Add pagination support">> ELSE <<>>)
    \o (IF Len(capability.Parameters) > 0
           /\ ~\E i \in 1..Len(capability.Parameters) :
                  \/ StrContains(ToLower(capability.Parameters[i].Name), "sort")
                  \/ StrContains(ToLower(capability.Parameters[i].Name), "order")
        THEN <<"Add sorting support">> ELSE <<>>)

\* the default of a capability that declares no maximum
DefaultMaxLimit == 1000

DefaultLimit == 100

\* one filter parameter in GenerateGrammar: it sets the operators of its
\* column, and adds the column when no response column is known
filterColumn(capability, param, columnName, grammar) ==
    IF isPaginationParam(param.Name) \/ columnName = "" THEN grammar
    ELSE [grammar EXCEPT
            !.WhereClause.AllowedColumns =
                MapPut(grammar.WhereClause.AllowedColumns, columnName,
                       IF Len(param.Operators) > 0 THEN param.Operators ELSE <<"=">>),
            !.AllowedColumns =
                IF Len(capability.ResponseColumns) = 0
                THEN Append(grammar.AllowedColumns, columnName) ELSE grammar.AllowedColumns,
            !.OrderBy.AllowedColumns =
                IF Len(capability.ResponseColumns) = 0
                THEN Append(grammar.OrderBy.AllowedColumns, columnName)
                ELSE grammar.OrderBy.AllowedColumns]

\* the parameter loop of GenerateGrammar
RECURSIVE grammarParameters(_, _, _)
grammarParameters(capability, params, grammar) ==
    IF Len(params) = 0 THEN grammar
    ELSE grammarParameters(capability, Tail(params),
             filterColumn(capability, Head(params), extractColumnName(Head(params).Name),
                          grammar))

\* the maximum limit of a grammar: the default when the capability has none
limitDefaulted(grammar) ==
    [grammar EXCEPT !.Limit.MaxLimit = IF grammar.Limit.MaxLimit = 0 THEN DefaultMaxLimit
                                       ELSE grammar.Limit.MaxLimit]

GenerateGrammar(capability) ==
    limitDefaulted(
        grammarParameters(capability, capability.Parameters,
            [TableName |-> capability.TableName,
             AllowedColumns |-> capability.ResponseColumns,
             WhereClause |-> [AllowedColumns |-> <<>>,
                              Suggestions |-> generateSuggestions(capability)],
             OrderBy |-> [AllowedColumns |-> capability.ResponseColumns,
                          DefaultOrder |-> ""],
             Limit |-> [MaxLimit |-> capability.MaxResults,
                        DefaultLimit |-> DefaultLimit,
                        HasPaging |-> capability.HasPaging]]))

(***************************************************************************)
(* The executor (internal/executor/rest.go)                                *)
(***************************************************************************)
\* NewRESTExecutor(authType, authToken)
NewRESTExecutor(authType, authToken) == [authType |-> authType, authToken |-> authToken]

\* the suffix test of matchesOperatorPattern
suffixMatches(suffix, operator) ==
    CASE operator = ">" -> suffix \in {"gt", "greater"}
      [] operator = ">=" -> suffix \in {"gte", "min"}
      [] operator = "<" -> suffix \in {"lt", "less"}
      [] operator = "<=" -> suffix \in {"lte", "max"}
      [] operator = "!=" -> suffix \in {"ne", "not"}
      [] operator = "LIKE" -> suffix \in {"like", "search", "contains"}
      [] operator = "IN" -> suffix = "in"
      [] OTHER -> FALSE

matchesOperatorPattern(paramName, column, operator) ==
    /\ HasPrefix(ToLower(paramName), ToLower(column))
    /\ suffixMatches(TrimPrefix(ToLower(paramName), ToLower(column) \o "_"), operator)

\* the least member of a non-empty set of positions
First(hits) == CHOOSE k \in hits : \A j \in hits : k <= j

\* the name of the first parameter at one of the positions, "" when none
firstName(params, hits) == IF hits = {} THEN "" ELSE params[First(hits)].Name

\* convertConditionToParam: the first parameter, in declaration order, that
\* matches the condition directly or by pattern
convertConditionToParam(capability, condition) ==
    With({k \in 1..Len(capability.Parameters) :
            \/ /\ ToLower(capability.Parameters[k].Name) = ToLower(condition.Column)
               /\ contains(capability.Parameters[k].Operators, condition.Operator)
            \/ matchesOperatorPattern(capability.Parameters[k].Name, condition.Column,
                                      condition.Operator)},
         LAMBDA hits :
           IF hits = {} THEN Failure("no API parameter found for condition")
           ELSE [ok |-> TRUE, name |-> firstName(capability.Parameters, hits),
                 value |-> Sprint(condition.Value)])

\* the first parameter whose lower-cased name contains one of the words
firstParameterWith(capability, words) ==
    firstName(capability.Parameters,
              {k \in 1..Len(capability.Parameters) :
                 \E w \in words : StrContains(ToLower(capability.Parameters[k].Name), w)})

findSortParameter(capability) == firstParameterWith(capability, {"sort", "order"})

findLimitParameter(capability) == firstParameterWith(capability, {"limit", "size", "per_page"})

findOffsetParameter(capability) == firstParameterWith(capability, {"offset", "page"})

RECURSIVE buildSortValue(_)
buildSortValue(orderBy) ==
    IF Len(orderBy) = 0 THEN ""
    ELSE (IF Head(orderBy).Order = "DESC" THEN "-" \o Head(orderBy).Column
          ELSE Head(orderBy).Column)
         \o (IF Len(orderBy) > 1 THEN "," \o buildSortValue(Tail(orderBy)) ELSE "")

\* url.Values.Add
ValuesAdd(params, name, value) ==
    MapPut(params, name, IF name \in DOMAIN params THEN Append(params[name], value)
                         ELSE <<value>>)

\* params.Add(name, value) when a parameter was found and the clause is present
addParam(params, present, name, value) ==
    IF present /\ name # "" THEN ValuesAdd(params, name, value) ELSE params

\* the condition loop of buildAPIURL
RECURSIVE conditionParams(_, _, _)
conditionParams(capability, conditions, params) ==
    IF Len(conditions) = 0 THEN [ok |-> TRUE, params |-> params]
    ELSE Then(convertConditionToParam(capability, Head(conditions)), LAMBDA r :
           conditionParams(capability, Tail(conditions),
                           addParam(params, TRUE, r.name, r.value)))

\* an outbound URL: the text before the query string, and the query
\* parameters (url.Values, which Encode writes sorted by name)
URL(base, params) == [Base |-> base, Query |-> params]

buildAPIURL(capability, query) ==
    Then(conditionParams(capability, query.Conditions, <<>>), LAMBDA conds :
      [ok |-> TRUE,
       url |-> URL(capability.BaseURL \o capability.Path,
                   addParam(
                     addParam(
                       addParam(conds.params, Len(query.OrderBy) > 0,
                                findSortParameter(capability), buildSortValue(query.OrderBy)),
                       query.Limit > 0, findLimitParameter(capability),
                       ToString(query.Limit)),
                     query.Offset > 0, findOffsetParameter(capability),
                     ToString(query.Offset)))])

\* strings.Replace(s, old, new, 1)
ReplaceFirst(s, old, new) ==
    With(Index(s, old), LAMBDA i :
      IF i = 0 THEN s
      ELSE SubSeq(s, 1, i - 1) \o new \o SubSeq(s, i + Len(old), Len(s)))

\* buildMutationURL sending the value as a query parameter instead
queryStringURL(capability, v) ==
    URL(capability.BaseURL \o capability.Path, [id |-> <<v>>])

\* the URL buildMutationURL makes of the value of the id condition
mutationURL(capability, v) ==
    IF StrContains(capability.Path, "{id}")
    THEN URL(ReplaceFirst(capability.BaseURL \o capability.Path, "{id}", v), <<>>)
    ELSE URL(capability.BaseURL \o capability.Path \o "/" \o v, <<>>)

buildMutationURL(capability, query) ==
    With({k \in 1..Len(query.Conditions) :
            query.Conditions[k].Column = "id" /\ query.Conditions[k].Operator = "="},
         LAMBDA ids :
           IF ids = {} THEN Failure("UPDATE/DELETE requires WHERE id = value clause")
           ELSE [ok |-> TRUE,
                 url |-> mutationURL(capability, Sprint(query.Conditions[First(ids)].Value))])

\* JSON values, as encoding/json decodes them into interface{}
JArray(items) == [j |-> "array", items |-> items]

JObject(fields) == [j |-> "object", fields |-> fields]

JScalar(v) == [j |-> "scalar", v |-> v]

\* a body that json.Unmarshal rejects
JInvalid == [j |-> "invalid"]

\* what the HTTP client answers to one request: a transport error, or a
\* response with a status code and a body (Raw is the body's text)
TransportError(msg) == [kind |-> "error", err |-> msg]

HTTPResponse(status, body, raw) ==
    [kind |-> "http", Status |-> status, Body |-> body, Raw |-> raw]

\* the answer of a client that was never called
NoResponse == [kind |-> "none"]

HexSet == DigitSet \cup {"a", "b", "c", "d", "e", "f", "A", "B", "C", "D", "E", "F"}

\* url.Parse, called by http.NewRequest, rejects a percent sign that is not
\* followed by two hexadecimal digits
URLParses(text) ==
    \A i \in 1..Len(text) :
        SubSeq(text, i, i) = "%" =>
            /\ i + 2 <= Len(text)
            /\ SubSeq(text, i + 1, i + 1) \in HexSet
            /\ SubSeq(text, i + 2, i + 2) \in HexSet

\* json.Marshal of a map body fails on a float that is not finite
Marshals(body) ==
    \A c \in DOMAIN body : body[c].k = "float" => body[c].finite

\* the authentication switch of makeRequest
authHeaders(e) ==
    LET t == ToLower(e.authType)
    IN  CASE t = "bearer" -> [Authorization |-> "Bearer " \o e.authToken]
          [] t = "apikey" -> [x \in {"X-API-Key"} |-> e.authToken]
          [] t = "basic" -> [Authorization |-> "Basic " \o e.authToken]
          [] OTHER -> <<>>

\* a request body: none (a nil interface), or a map
NoBody == [present |-> FALSE]

Body(m) == [present |-> TRUE, map |-> m]

\* the request makeRequest builds
NewRequest(e, method, url, body) ==
    [Method |-> method, URL |-> url, Body |-> body,
     Header |-> (IF body.present THEN [x \in {"Content-Type"} |-> "application/json"]
                 ELSE <<>>)
                @@ authHeaders(e)
                @@ [x \in {"Accept"} |-> "application/json"]
                @@ [x \in {"User-Agent"} |-> "qRest/1.0"]]

\* e.client.Do(req) and the status check of makeRequest
Do(req, reply) ==
    IF reply.kind = "error"
    THEN [sent |-> <<req>>, ok |-> FALSE, err |-> reply.err]
    ELSE IF reply.Status >= 400
    THEN [sent |-> <<req>>, ok |-> FALSE,
          err |-> "API returned status " \o ToString(reply.Status) \o ": " \o reply.Raw]
    ELSE [sent |-> <<req>>, ok |-> TRUE, resp |-> reply]

\* makeRequest: sent is the requests handed to the HTTP client (none when
\* the body cannot be marshalled or the request cannot be built), reply the
\* client's answer to the request
makeRequest(e, method, url, body, reply) ==
    IF body.present /\ ~Marshals(body.map)
    THEN [sent |-> <<>>, ok |-> FALSE, err |-> "failed to marshal request body"]
    ELSE IF ~URLParses(url.Base)
    THEN [sent |-> <<>>, ok |-> FALSE, err |-> "invalid URL escape"]
    ELSE Do(NewRequest(e, method, url, body), reply)

\* the records of a decoded array: elements that are not objects are dropped
RECURSIVE itemMaps(_)
itemMaps(items) ==
    IF Len(items) = 0 THEN <<>>
    ELSE (IF Head(items).j = "object" THEN <<Head(items).fields>> ELSE <<>>)
         \o itemMaps(Tail(items))

dataFields == <<"data", "results", "items", "records", "list">>

\* the positions in dataFields of the fields of a wrapper object that hold an array
arrayFields(fields) ==
    {k \in 1..Len(dataFields) :
       dataFields[k] \in DOMAIN fields /\ fields[dataFields[k]].j = "array"}

\* a reshaping that stops at the first wrapper field that is present
extractFirstPresent(jsonData) ==
    CASE jsonData.j = "array" -> [ok |-> TRUE, data |-> itemMaps(jsonData.items)]
      [] jsonData.j = "object" ->
           With({k \in 1..Len(dataFields) : dataFields[k] \in DOMAIN jsonData.fields},
                LAMBDA hits :
             IF hits # {} /\ jsonData.fields[dataFields[First(hits)]].j = "array"
             THEN [ok |-> TRUE,
                   data |-> itemMaps(jsonData.fields[dataFields[First(hits)]].items)]
             ELSE [ok |-> TRUE, data |-> <<jsonData.fields>>])
      [] OTHER -> Failure("unsupported JSON response format")

extractDataArray(jsonData) ==
    CASE jsonData.j = "array" -> [ok |-> TRUE, data |-> itemMaps(jsonData.items)]
      [] jsonData.j = "object" ->
           With(arrayFields(jsonData.fields), LAMBDA hits :
             IF hits # {}
             THEN [ok |-> TRUE,
                   data |-> itemMaps(jsonData.fields[dataFields[First(hits)]].items)]
             ELSE [ok |-> TRUE, data |-> <<jsonData.fields>>])
      [] OTHER -> Failure("unsupported JSON response format")

filterColumns(data, columns) ==
    IF Len(columns) = 0 THEN data
    ELSE [r \in 1..Len(data) |->
            [c \in {columns[k] : k \in 1..Len(columns)} \cap DOMAIN data[r] |-> data[r][c]]]

\* QueryResult
QueryResult(data, error) ==
    [Data |-> data, Total |-> Len(data), Error |-> error, Warnings |-> <<>>]

parseResponse(resp, query) ==
    IF resp.Body.j = "invalid" THEN Failure("response is not valid JSON")
    ELSE Then(extractDataArray(resp.Body), LAMBDA data :
           [ok |-> TRUE, result |-> QueryResult(filterColumns(data.data, query.Columns), "")])

\* the INSERT body: body[col] = query.Values[i], a later duplicate column
\* replacing an earlier one
RECURSIVE insertBody(_, _, _)
insertBody(columns, values, body) ==
    IF Len(columns) = 0 THEN body
    ELSE insertBody(Tail(columns), Tail(values), MapPut(body, Head(columns), Head(values)))

\* what ExecuteQuery returns: the caller's error (fault), or a QueryResult;
\* sent is the requests it handed to the HTTP client
Fault(msg) == [sent |-> <<>>, fault |-> msg, result |-> QueryResult(<<>>, "")]

Returned(sent, result) == [sent |-> sent, fault |-> "", result |-> result]

\* the part of ExecuteQuery after the switch.  errSeen tells whether the
\* error of makeRequest reached the function's own err variable: the
\* SELECT, UPDATE and DELETE cases declare an err of their own, which takes
\* the error and goes out of scope with the case
afterRequest(r, errSeen, query) ==
    IF ~r.ok /\ errSeen
    THEN Returned(r.sent, QueryResult(<<>>, "API request failed: " \o r.err))
    ELSE IF ~r.ok
    THEN Returned(r.sent, QueryResult(<<>>, "No response received from API"))
    ELSE With(parseResponse(r.resp, query), LAMBDA parsed :
           IF ~parsed.ok
           THEN Returned(r.sent, QueryResult(<<>>, "Failed to parse API response: "
                                                   \o parsed.err))
           ELSE Returned(r.sent, parsed.result))

\* a case of ExecuteQuery that builds its URL first: the caller's error when
\* that fails, the request otherwise
requestTo(e, method, apiURL, body, query, reply) ==
    IF ~apiURL.ok THEN Fault("failed to build API URL: " \o apiURL.err)
    ELSE With(makeRequest(e, method, apiURL.url, body, reply), LAMBDA r :
           afterRequest(r, FALSE, query))

ExecuteQuery(e, capability, query, reply) ==
    CASE query.QueryType = "SELECT" ->
           requestTo(e, "GET", buildAPIURL(capability, query), NoBody, query, reply)
      [] query.QueryType = "INSERT" ->
           With(makeRequest(e, "POST", URL(capability.BaseURL \o capability.Path, <<>>),
                            Body(insertBody(query.Columns, query.Values, <<>>)), reply),
                LAMBDA r : afterRequest(r, TRUE, query))
      [] query.QueryType = "UPDATE" ->
           requestTo(e, capability.Method, buildMutationURL(capability, query),
                     Body(query.Updates), query, reply)
      [] query.QueryType = "DELETE" ->
           requestTo(e, "DELETE", buildMutationURL(capability, query), NoBody, query, reply)
      [] OTHER -> Fault("unsupported query type: " \o query.QueryType)

(***************************************************************************)
(* The environment: interface descriptions, configurations, SQL texts and  *)
(* the answers of the remote API.                                          *)
(***************************************************************************)
\* the sequences that hold each element of S once: the orders in which a
\* range statement can visit a map with these keys
Orders(S) ==
    {o \in [1..Cardinality(S) -> S] : \A i, j \in 1..Cardinality(S) : o[i] = o[j] => i = j}

Param(name, type, in) ==
    [Name |-> name, Type |-> type, In |-> in, Required |-> FALSE, Format |-> "",
     Enum |-> <<>>, HasMaximum |-> FALSE, Maximum |-> 0]

Operation(params, response) == [Parameters |-> params, Response |-> response]

\* the largest page the users API declares for its limit parameter
UsersMaxLimit == 50

\* a pet store: findByStatus lists pets, /pet creates and replaces one,
\* /pet/{petId} reads, updates and deletes one
PetstorePaths ==
    [p \in {"/pet", "/pet/findByStatus", "/pet/{petId}"} |->
       CASE p = "/pet" ->
              [v \in {"POST", "PUT"} |-> Operation(<<Param("body", "", "body")>>, NoSchema)]
         [] p = "/pet/findByStatus" ->
              [v \in {"GET"} |->
                 Operation(<<Param("status", "array", "query")>>,
                           ArraySchema(RefSchema("#/definitions/Pet")))]
         [] p = "/pet/{petId}" ->
              [v \in {"GET", "POST", "DELETE"} |->
                 Operation(<<Param("petId", "integer", "path")>>,
                           IF v = "GET" THEN RefSchema("#/definitions/Pet") ELSE NoSchema)]]

\* a user directory: /users lists users with filters, paging and sorting
\* and replaces one, /users/{id} reads and deletes one, /user-groups lists
\* the groups
UsersPaths ==
    [p \in {"/users", "/users/{id}", "/user-groups"} |->
       CASE p = "/user-groups" -> [v \in {"GET"} |-> Operation(<<>>, NoSchema)]
         [] p = "/users" ->
              [v \in {"GET", "PUT"} |->
                 IF v = "GET"
                 THEN Operation(<<Param("id", "integer", "query"),
                                  Param("age_gt", "integer", "query"),
                                  Param("name", "string", "query"),
                                  [Param("limit", "integer", "query")
                                     EXCEPT !.HasMaximum = TRUE, !.Maximum = UsersMaxLimit],
                                  Param("offset", "integer", "query"),
                                  Param("sort", "string", "query")>>,
                                ArraySchema(RefSchema("#/definitions/User")))
                 ELSE Operation(<<Param("id", "integer", "query"),
                                  Param("body", "", "body")>>, NoSchema)]
         [] p = "/users/{id}" ->
              [v \in {"GET", "DELETE"} |->
                 IF v = "GET"
                 THEN Operation(<<Param("id", "integer", "path")>>,
                                RefSchema("#/definitions/User"))
                 ELSE Operation(<<Param("id", "integer", "query")>>, NoSchema)]]

\* a club register: /members lists and deletes members.  The list takes a
\* plain and a range-suffixed parameter of the column age (the plain one
\* first; the deletion declares them the other way round), a parameter max
\* next to a parameter m, and the paging parameters page and per_page
MembersPaths ==
    [p \in {"/members"} |->
       [v \in {"GET", "DELETE"} |->
          IF v = "GET"
          THEN Operation(<<Param("max", "integer", "query"),
                           Param("m", "integer", "query"),
                           Param("age", "integer", "query"),
                           Param("age_gt", "integer", "query"),
                           Param("name", "string", "query"),
                           Param("score_between", "integer", "query"),
                           Param("page", "integer", "query"),
                           Param("per_page", "integer", "query")>>, NoSchema)
          ELSE Operation(<<Param("id", "integer", "query"),
                           Param("age_gt", "integer", "query"),
                           Param("age", "integer", "query"),
                           Param("score_between", "integer", "query")>>, NoSchema)]]

\* what loads.Spec returns for a description: its paths and definitions,
\* with the orders in which this run visits the map of paths (order) and
\* the properties of the record schema (properties)
Views(paths, defName, properties) ==
    {[loaded |-> TRUE, hasPaths |-> TRUE, paths |-> paths, order |-> o,
      definitions |-> [d \in {defName} |-> ObjectSchema(props)]] :
        o \in Orders(DOMAIN paths), props \in Orders(properties)}

\* loads.Spec returns an error: the description is missing or is not JSON
\* or YAML
Unloadable ==
    [loaded |-> FALSE, hasPaths |-> FALSE, paths |-> <<>>, order |-> <<>>,
     definitions |-> <<>>]

\* loads.Spec returns a document that has no paths object: the field Paths
\* of spec.Swagger, a pointer, is nil
Pathless == [Unloadable EXCEPT !.loaded = TRUE]

Load(specURL) ==
    CASE specURL = "petstore.json" -> Views(PetstorePaths, "Pet", {"name", "status"})
      [] specURL = "users.json" -> Views(UsersPaths, "User", {"id", "age"})
      [] specURL = "members.json" -> Views(MembersPaths, "Member", {"id"})
      [] specURL = "missing.json" -> {Unloadable}
      [] specURL = "draft.json" -> {Pathless}

\* APIConfig
API(name, specURL, baseURL, authType, authToken) ==
    [Name |-> name, SpecURL |-> specURL, BaseURL |-> baseURL,
     Auth |-> [Type |-> authType, Token |-> authToken]]

\* the configurations: one API, or two; every authentication scheme occurs
Configs ==
    {<<API("petstore", "petstore.json", "https://pets.test/v2", "bearer", "tok-p")>>,
     <<API("users", "users.json", "https://users.test", "apikey", "key-u")>>,
     <<API("members", "members.json", "https://club.test", "none", "")>>,
     <<API("legacy", "missing.json", "https://legacy.test", "none", ""),
       API("members", "members.json", "https://club.test", "none", "")>>,
     <<API("members", "members.json", "https://club.test", "none", ""),
       API("legacy", "missing.json", "https://legacy.test", "none", "")>>,
     <<API("draft", "draft.json", "https://draft.test", "none", ""),
       API("members", "members.json", "https://club.test", "none", "")>>,
     <<API("petstore", "petstore.json", "https://pets.test/v2", "basic", "dXNlcg"),
       API("users", "users.json", "https://users.test", "none", "")>>}

\* a SELECT text with a LIMIT clause written after it
WithLimit(select, n) == select \o " LIMIT " \o ToString(n)

\* SELECT * of a table
SelectAll(table) == "SELECT * FROM " \o table

\* a SELECT whose filter value is a text that reads like a LIMIT clause
SelectLimitText == "SELECT * FROM findByStatus WHERE status = 'limit 3'"

\* the LIMIT values written against the table users, whose maximum is
\* UsersMaxLimit, and against findByStatus, whose maximum is the default
UsersLimits == {0, UsersMaxLimit, UsersMaxLimit + 1}

FindByStatusLimits == {DefaultMaxLimit, DefaultMaxLimit + 1}

\* the LIMIT written after SelectLimitText
TextLimit == 5

\* the SELECT texts that are submitted with a LIMIT clause, and the values
\* of the clause
Limited ==
    [s \in {SelectAll("users"), SelectAll("findByStatus"), SelectLimitText} |->
       CASE s = SelectAll("users") -> UsersLimits
         [] s = SelectAll("findByStatus") -> FindByStatusLimits
         [] OTHER -> {TextLimit}]

\* the SQL texts a client submits
SQLTexts ==
    UNION {{WithLimit(s, n) : n \in Limited[s]} : s \in DOMAIN Limited}
    \cup {SelectAll(t) : t \in {"users", "findByStatus", "pet", "user-groups",
                                 "petstore_findByStatus"}}
    \cup {SelectLimitText,
          "SELECT id, age FROM users WHERE age > 30 AND id = 7 ORDER BY age DESC LIMIT 10 OFFSET 5",
          "SELECT name FROM findByStatus WHERE status = 'sold'",
          "SELECT * FROM users WHERE age = 5",
          "SELECT * FROM users WHERE age > 30 OR id = 7",
          "SELECT bogus FROM users",
          "INSERT INTO pet (name, status) VALUES ('Fluffy', 'available')",
          "INSERT INTO pet (name) VALUES ('NaN')",
          "INSERT INTO pet (name, status) VALUES ('Fluffy')",
          "INSERT INTO pet (name, status) VALUES ('Rex, Jr')",
          "INSERT INTO pet (name) VALUES ('from pet_post ')",
          "UPDATE pet SET name = 'Fluffy Jr' WHERE id = 123",
          "UPDATE users SET name = 'Bob', bogus = 1 WHERE id = 5",
          "UPDATE users SET name = 'Bob' WHERE id > 5",
          "DELETE FROM pet WHERE id = 123",
          "DELETE FROM pet",
          "DELETE FROM users WHERE id = 5",
          "DELETE FROM users WHERE id = '5%'",
          "DELETE FROM users WHERE id > 5",
          "DELETE FROM users",
          "delete from users where",
          "SELECT * FROM members WHERE age > 25",
          "SELECT * FROM members WHERE age >= 25",
          "SELECT * FROM members WHERE m <= 6",
          "SELECT * FROM members WHERE max >= 6",
          "SELECT * FROM members WHERE name LIKE 'bob'",
          "SELECT * FROM members WHERE name ILIKE 'bob'",
          "SELECT * FROM members WHERE score BETWEEN 1 AND 5",
          "SELECT * FROM members LIMIT 10 OFFSET 2",
          "DELETE FROM members WHERE score BETWEEN 1 AND 5",
          "UPDATE users SET name = 'Bob' WHERE id >= 1 AND id <= 9",
          "DROP TABLE users"}

\* a record of the remote API
Row == [id |-> JScalar(1), name |-> JScalar("Rex"), status |-> JScalar("sold")]

\* the answers of the remote API to one request
Replies ==
    {TransportError("connection refused"),
     HTTPResponse(200, JArray(<<JObject(Row), JScalar(7)>>), "[{..},7]"),
     HTTPResponse(200, JObject([data |-> JArray(<<JObject(Row)>>), total |-> JScalar(1)]),
                  "{data:[{..}]}"),
     HTTPResponse(200, JObject([data |-> JScalar("page 1"),
                                items |-> JArray(<<JObject(Row), JScalar(7)>>),
                                list |-> JArray(<<>>)]),
                  "{data:page 1,items:[{..},7],list:[]}"),
     HTTPResponse(201, JObject(Row), "{..}"),
     HTTPResponse(200, JScalar(1), "1"),
     HTTPResponse(204, JInvalid, ""),
     HTTPResponse(300, JArray(<<JObject(Row)>>), "[{..}]"),
     HTTPResponse(404, JObject([message |-> JScalar("not found")]), "{message:not found}"),
     HTTPResponse(500, JInvalid, "oops")}

(***************************************************************************)
(* The programs: the server (cmd/server), the command line (cmd/cli), and  *)
(* a caller that uses the translator and the executor directly (core).     *)
(***************************************************************************)
VARIABLES
    program,     \* which program this run is
    config,      \* the configuration: a sequence of APIConfig
    gateway,     \* the server's SQLGateway
    discovered,  \* core: the capabilities the caller holds, and its executor
    input,       \* the query that was submitted and is not yet handled
    call,        \* the query handled last: how far it got, and its outcome
    handlers     \* server: the handlers that run at the same time, each with
                 \* the stage it is at and the query it handles

vars == <<program, config, gateway, discovered, input, call, handlers>>

Programs == {"server", "cli", "core"}

NoGrammar == [TableName |-> ""]

NoInput ==
    [pending |-> FALSE, sql |-> "", capability |-> NoCapability,
     translated |-> FALSE, translation |-> Failure("")]

\* a query that has got nowhere yet.  status is the HTTP status of the
\* server's answer, or the exit status of the command line
BaseCall(by, sql) ==
    [by |-> by, sql |-> sql, key |-> "", found |-> FALSE, capability |-> NoCapability,
     grammar |-> NoGrammar, executor |-> NewRESTExecutor("", ""), registered |-> <<>>,
     translated |-> FALSE, translation |-> Failure(""), executed |-> FALSE,
     outcome |-> Fault(""), reply |-> NoResponse, status |-> 0, error |-> ""]

NoCall == BaseCall("none", "")

\* the capability and grammar maps, and for each key the number of
\* capabilities that were stored under it
EmptyMaps == [capabilities |-> <<>>, grammars |-> <<>>, registered |-> <<>>]

\* the registration loop of initializeGateway and loadAPICapabilities
RECURSIVE registerAll(_, _, _)
registerAll(capabilities, prefix, maps) ==
    IF Len(capabilities) = 0 THEN maps
    ELSE With(prefix \o Head(capabilities).TableName, LAMBDA tableName :
           registerAll(Tail(capabilities), prefix,
               [capabilities |-> MapPut(maps.capabilities, tableName, Head(capabilities)),
                grammars |-> MapPut(maps.grammars, tableName,
                                    GenerateGrammar(Head(capabilities))),
                registered |-> MapPut(maps.registered, tableName,
                                      IF tableName \in DOMAIN maps.registered
                                      THEN maps.registered[tableName] + 1 ELSE 1)]))

\* the loop of initializeGateway over the configured APIs; views[i] is what
\* loading the description of the i-th API returned.  An API whose
\* description does not load is skipped; ranging
\* over p.spec.Paths.Paths of a document without paths dereferences nil, and
\* the panic, which nothing recovers, ends the process
RECURSIVE loadAPIs(_, _, _, _)
loadAPIs(cfg, views, i, maps) ==
    IF i > Len(cfg) THEN [panicked |-> FALSE, maps |-> maps]
    ELSE IF ~views[i].loaded THEN loadAPIs(cfg, views, i + 1, maps)
    ELSE IF ~views[i].hasPaths THEN [panicked |-> TRUE, maps |-> maps]
    ELSE loadAPIs(cfg, views, i + 1,
                  registerAll(ParseCapabilities(views[i], cfg[i].BaseURL, views[i].order),
                              IF Len(cfg) > 1 THEN cfg[i].Name \o "_" ELSE "", maps))

\* loadAPICapabilities of the command line: the maps of one API, unprefixed
loadAPICapabilities(apiConfig, view) ==
    registerAll(ParseCapabilities(view, apiConfig.BaseURL, view.order), "", EmptyMaps)

NotStarted ==
    [started |-> FALSE, crashed |-> FALSE, capabilities |-> <<>>, grammars |-> <<>>,
     registered |-> <<>>, executor |-> NewRESTExecutor("", "")]

\* the server process after a panic in initializeGateway
Crashed == [NotStarted EXCEPT !.crashed = TRUE]

\* the gateway initializeGateway returns: the maps, and an executor that
\* has no authentication
Started(maps) ==
    [started |-> TRUE, crashed |-> FALSE, capabilities |-> maps.capabilities,
     grammars |-> maps.grammars, registered |-> maps.registered,
     executor |-> NewRESTExecutor("", "")]

\* the gateway after the loop over the APIs
initialized(loaded) == IF loaded.panicked THEN Crashed ELSE Started(loaded.maps)

\* the first word after the first "from ", when the text has one
firstWord(sql, fromIndex, words) ==
    IF fromIndex = 0 THEN [ok |-> FALSE, err |-> "no FROM clause found in SQL"]
    ELSE IF Len(words) = 0 THEN [ok |-> FALSE, err |-> "no table name found after FROM"]
    ELSE [ok |-> TRUE, name |-> TrimSpace(words[1])]

\* the table a front end looks up: the first word after the first "from "
\* (extractTableName of cmd/cli and of cmd/server, which are the same)
extractTableNameSQL(sql) ==
    With(Index(ToLower(sql), "from "), LAMBDA fromIndex :
      firstWord(sql, fromIndex, Fields(SubSeq(sql, fromIndex + 5, Len(sql)))))

\* the call once its table was found in the maps
Found(base, maps, tableName, executor) ==
    [base EXCEPT !.key = tableName, !.found = TRUE,
                 !.capability = maps.capabilities[tableName],
                 !.grammar = maps.grammars[tableName], !.executor = executor]

\* the call once ParseSQL has returned
Translated(found, parsedQuery) ==
    [found EXCEPT !.translated = TRUE, !.translation = parsedQuery]

\* the call once ExecuteQuery has returned out
Returns(found, out, reply) ==
    [found EXCEPT !.executed = TRUE, !.outcome = out,
                  !.reply = IF Len(out.sent) > 0 THEN reply ELSE NoResponse,
                  !.error = IF out.fault # "" THEN "query execution failed: " \o out.fault
                            ELSE out.result.Error]

\* the call after ExecuteQuery, to which the remote API answers with reply
Executed(found, reply) ==
    Returns(found,
            ExecuteQuery(found.executor, found.capability, found.translation.q, reply),
            reply)

NothingDiscovered == [capabilities |-> {}, executor |-> NewRESTExecutor("", "")]

\* the number of handlers the server runs at the same time
MaxHandlers == 2

\* a handler at a stage of handleQuery, with the query it handles
Handler(stage, c) == [stage |-> stage, call |-> c]

Idle == Handler("idle", NoCall)

Init ==
    /\ program \in Programs
    /\ config \in Configs
    /\ gateway = NotStarted
    /\ discovered = NothingDiscovered
    /\ input = NoInput
    /\ call = NoCall
    /\ handlers = [h \in 1..MaxHandlers |-> Idle]

\* the server starts: it loads every configured API; the executor it
\* creates has no authentication
initializeGateway ==
    /\ program = "server"
    /\ ~gateway.started
    /\ ~gateway.crashed
    /\ \E views \in [1..Len(config) -> UNION {Load(config[i].SpecURL) : i \in 1..Len(config)}] :
          /\ \A i \in 1..Len(config) : views[i] \in Load(config[i].SpecURL)
          /\ gateway' = initialized(loadAPIs(config, views, 1, EmptyMaps))
    /\ UNCHANGED <<handlers, program, config, discovered, input, call>>

\* a client posts a query to the server
Request ==
    /\ program = "server"
    /\ gateway.started
    /\ ~input.pending
    /\ \E sql \in SQLTexts : input' = [NoInput EXCEPT !.pending = TRUE, !.sql = sql]
    /\ call' = NoCall
    /\ UNCHANGED <<handlers, program, config, gateway, discovered>>

\* the server's answer after ExecuteQuery: 500 for an error, 200 otherwise
serverResponse(done) ==
    [done EXCEPT !.status = IF done.outcome.fault # "" THEN 500 ELSE 200]

\* handleQuery after ParseSQL: 400 for a rejected text, execution otherwise
serverExecute(found) ==
    IF ~found.translation.ok
    THEN call' = [found EXCEPT !.status = 400, !.error = found.translation.err]
    ELSE \E reply \in Replies : call' = serverResponse(Executed(found, reply))

\* handleQuery after extractTableName: the table lookup and the translation
serverLookup(base, tableName) ==
    IF ~tableName.ok
    THEN call' = [base EXCEPT !.status = 400,
                              !.error = "Failed to parse SQL: " \o tableName.err]
    ELSE IF tableName.name \notin DOMAIN gateway.capabilities
    THEN call' = [base EXCEPT !.key = tableName.name, !.status = 400,
                              !.error = "Table '" \o tableName.name \o "' not found"]
    ELSE serverExecute(
             Translated(Found(base, gateway, tableName.name, gateway.executor),
                        ParseSQL(gateway.grammars[tableName.name], base.sql)))

\* the server handles the query: table lookup, translation, execution
handleQuery ==
    /\ program = "server"
    /\ input.pending
    /\ input' = NoInput
    /\ serverLookup(BaseCall("server", input.sql), extractTableNameSQL(input.sql))
    /\ UNCHANGED <<handlers, program, config, gateway, discovered>>

\* the command line is started with a query; the process runs one query
Invoke ==
    /\ program = "cli"
    /\ ~input.pending
    /\ call = NoCall
    /\ \E sql \in SQLTexts : input' = [NoInput EXCEPT !.pending = TRUE, !.sql = sql]
    /\ UNCHANGED <<handlers, program, config, gateway, discovered, call>>

\* the exit status of the command line after ExecuteQuery
cliExit(done) == [done EXCEPT !.status = IF done.error # "" THEN 1 ELSE 0]

\* runQuery after ParseSQL
cliExecute(found) ==
    IF ~found.translation.ok THEN call' = [found EXCEPT !.error = found.translation.err]
    ELSE \E reply \in Replies : call' = cliExit(Executed(found, reply))

\* runQuery after loadAPICapabilities
cliLookup(apiConfig, maps, base, tableName) ==
    IF DOMAIN maps.capabilities = {}
    THEN call' = [base EXCEPT !.error = "no API capabilities found in specification"]
    ELSE IF ~tableName.ok
    THEN call' = [base EXCEPT !.error = "failed to parse SQL: " \o tableName.err]
    ELSE IF tableName.name \notin DOMAIN maps.capabilities
    THEN call' = [base EXCEPT !.key = tableName.name,
                              !.error = "table '" \o tableName.name \o "' not found"]
    ELSE cliExecute(
             Translated(Found(base, maps, tableName.name,
                              NewRESTExecutor(apiConfig.Auth.Type, apiConfig.Auth.Token)),
                        ParseSQL(maps.grammars[tableName.name], base.sql)))

\* runQuery with the maps of the selected API
cliLoaded(apiConfig, maps, sql) ==
    cliLookup(apiConfig, maps,
              [BaseCall("cli", sql) EXCEPT !.registered = maps.registered, !.status = 1],
              extractTableNameSQL(sql))

\* runQuery at loadAPICapabilities: an error when the description does not
\* load, a panic (exit status 2) when it has no paths
cliLoad(apiConfig, view, sql) ==
    IF ~view.loaded
    THEN call' = [BaseCall("cli", sql) EXCEPT !.status = 1,
                    !.error = "failed to load API capabilities: failed to load OpenAPI spec"]
    ELSE IF ~view.hasPaths
    THEN call' = [BaseCall("cli", sql) EXCEPT !.status = 2,
                    !.error = "panic: invalid memory address or nil pointer dereference"]
    ELSE cliLoaded(apiConfig, loadAPICapabilities(apiConfig, view), sql)

\* the command line runs the query against the API it selects (the one
\* named on the command line, or the first): it loads the API, looks the
\* table up, translates and executes with the API's authentication
runQuery ==
    /\ program = "cli"
    /\ input.pending
    /\ input' = NoInput
    /\ \E i \in 1..Len(config) : \E view \in Load(config[i].SpecURL) :
          cliLoad(config[i], view, input.sql)
    /\ UNCHANGED <<handlers, program, config, gateway, discovered>>

\* the capabilities the caller holds after discovery
Holding(apiConfig, capabilities) ==
    [capabilities |-> {capabilities[k] : k \in 1..Len(capabilities)},
     executor |-> NewRESTExecutor(apiConfig.Auth.Type, apiConfig.Auth.Token)]

\* core: the caller discovers the capabilities of one API, and creates an
\* executor with the API's authentication
Discover ==
    /\ program = "core"
    /\ discovered.capabilities = {}
    /\ \E i \in 1..Len(config) : \E view \in Load(config[i].SpecURL) :
          /\ view.loaded
          /\ view.hasPaths
          /\ discovered' = Holding(config[i],
                                   ParseCapabilities(view, config[i].BaseURL, view.order))
    /\ UNCHANGED <<handlers, program, config, gateway, input, call>>

\* core: the caller takes a capability and a text, for the one query it makes
Pick ==
    /\ program = "core"
    /\ ~input.pending
    /\ call = NoCall
    /\ \E capability \in discovered.capabilities : \E sql \in SQLTexts :
          input' = [NoInput EXCEPT !.pending = TRUE, !.sql = sql, !.capability = capability]
    /\ UNCHANGED <<handlers, program, config, gateway, discovered, call>>

\* the caller's call with the capability it took and the grammar of it
coreFound(capability, grammar) ==
    [BaseCall("core", input.sql)
       EXCEPT !.key = capability.TableName, !.found = TRUE, !.capability = capability,
              !.grammar = grammar, !.executor = discovered.executor]

\* Translate after ParseSQL: the caller keeps a ParsedQuery, and stops at an error
coreTranslated(found) ==
    IF found.translation.ok
    THEN /\ input' = [input EXCEPT !.translated = TRUE, !.translation = found.translation]
         /\ call' = call
    ELSE /\ input' = NoInput
         /\ call' = [found EXCEPT !.error = found.translation.err]

\* the translation of the text with a grammar
coreTranslate(grammar) ==
    coreTranslated(Translated(coreFound(input.capability, grammar),
                              ParseSQL(grammar, input.sql)))

\* core: ParseSQL with the grammar of the capability
Translate ==
    /\ program = "core"
    /\ input.pending
    /\ ~input.translated
    /\ coreTranslate(GenerateGrammar(input.capability))
    /\ UNCHANGED <<handlers, program, config, gateway, discovered>>

\* core: ExecuteQuery with the capability and the ParsedQuery
Execute ==
    /\ program = "core"
    /\ input.pending
    /\ input.translated
    /\ input' = NoInput
    /\ \E reply \in Replies :
          call' = Executed(Translated(coreFound(input.capability,
                                                GenerateGrammar(input.capability)),
                                      input.translation),
                           reply)
    /\ UNCHANGED <<handlers, program, config, gateway, discovered>>

Next ==
    \/ initializeGateway
    \/ Request
    \/ handleQuery
    \/ Invoke
    \/ runQuery
    \/ Discover
    \/ Pick
    \/ Translate
    \/ Execute

Spec == Init /\ [][Next]_vars

(***************************************************************************)
(* Properties of the translator                                            *)
(***************************************************************************)
\* the members of a list
Elements(list) == {list[i] : i \in 1..Len(list)}

\* the columns a grammar knows: projectable, filterable or orderable
GrammarColumns(g) ==
    Elements(g.AllowedColumns) \cup DOMAIN g.WhereClause.AllowedColumns
    \cup Elements(g.OrderBy.AllowedColumns)

\* a DELETE text in which the word WHERE does not occur
DeleteWithoutWhere(sql) ==
    /\ HasPrefix(ToUpper(TrimSpace(sql)), "DELETE")
    /\ ~StrContains(ToUpper(sql), "WHERE")

\* C1: whatever the grammar, ParseSQL answers a DELETE text that has no
\* WHERE clause with an error and never with a ParsedQuery; so every DELETE
\* ParsedQuery it returns has at least one condition.
C1_DeleteNeedsWhere ==
    call.translated =>
        /\ DeleteWithoutWhere(call.sql) => ~call.translation.ok
        /\ (call.translation.ok /\ call.translation.q.QueryType = "DELETE")
              => Len(call.translation.q.Conditions) >= 1

\* a DELETE without WHERE, written against the table of the grammar, was
\* rejected for the missing WHERE clause
C1_Rejected ==
    /\ call.translated
    /\ DeleteWithoutWhere(call.sql)
    /\ call.sql = "DELETE FROM " \o TrimSuffix(call.grammar.TableName, "_delete")
    /\ ~call.translation.ok
    /\ call.translation.err = "DELETE without WHERE clause is not allowed for safety"

\* C2: a ParsedQuery that ParseSQL returns, for a text of any of the four
\* statement kinds, names only columns of the grammar: its projected or
\* inserted columns, the keys of its updates, the columns of its conditions
\* and of its ordering are projectable, filterable or orderable.
C2_OnlyGrammarColumns ==
    (call.translated /\ call.translation.ok) =>
        /\ Elements(call.translation.q.Columns) \subseteq GrammarColumns(call.grammar)
        /\ DOMAIN call.translation.q.Updates \subseteq GrammarColumns(call.grammar)
        /\ \A i \in 1..Len(call.translation.q.Conditions) :
              call.translation.q.Conditions[i].Column \in GrammarColumns(call.grammar)
        /\ \A i \in 1..Len(call.translation.q.OrderBy) :
              call.translation.q.OrderBy[i].Column \in GrammarColumns(call.grammar)

\* C3: for a SELECT that is valid without its LIMIT clause, ParseSQL fails
\* when the LIMIT written is greater than the maximum of the grammar, and
\* succeeds with the limit of the ParsedQuery equal to the value written
\* for every value from 0 up to and including the maximum.
C3_LimitBoundary ==
    \A s \in DOMAIN Limited : \A n \in Limited[s] :
        (call.translated /\ call.sql = WithLimit(s, n) /\ ParseSQL(call.grammar, s).ok) =>
            IF n > call.grammar.Limit.MaxLimit THEN ~call.translation.ok
            ELSE call.translation.ok /\ call.translation.q.Limit = n

\* C4: for a grammar with table name t, ParseSQL of SELECT * FROM t returns
\* a ParsedQuery whose columns are the projectable columns of the grammar:
\* the same elements in the same order.
C4_SelectStar ==
    (call.translated /\ call.sql = SelectAll(call.grammar.TableName)) =>
        /\ call.translation.ok
        /\ call.translation.q.Columns = call.grammar.AllowedColumns


(***************************************************************************)
(* Properties of the executor                                              *)
(***************************************************************************)
\* the requests the call handed to the HTTP client
Sent == call.outcome.sent

\* the positions of the conditions id = v of a query
IdConditions(q) ==
    {i \in 1..Len(q.Conditions) :
       q.Conditions[i].Column = "id" /\ q.Conditions[i].Operator = "="}

\* a query that maps to a URL: every condition of a SELECT has a matching
\* parameter, an UPDATE or DELETE has a condition id = v; an INSERT goes
\* to the path of the capability
Mappable(capability, q) ==
    CASE q.QueryType = "SELECT" ->
           \A i \in 1..Len(q.Conditions) :
               convertConditionToParam(capability, q.Conditions[i]).ok
      [] q.QueryType = "INSERT" -> TRUE
      [] OTHER -> IdConditions(q) # {}

\* C5: one ExecuteQuery call issues at most one outbound request: exactly
\* one when the query maps to a URL, none when the mapping fails; and the
\* command line and the server issue no request for a text that ParseSQL
\* rejected.
C5_OneRequest ==
    /\ call.executed =>
          Len(Sent) = IF Mappable(call.capability, call.translation.q) THEN 1 ELSE 0
    /\ (call.by \in {"cli", "server"} /\ call.translated /\ ~call.translation.ok) =>
          ~call.executed /\ Len(Sent) = 0

\* an answer that is no success: a transport error, a status outside
\* 200..299, or a body that is not JSON
FailedReply(reply) ==
    \/ reply.kind = "error"
    \/ reply.Status \notin 200..299
    \/ reply.Body.j = "invalid"

\* C6: when the outbound call fails at transport level, returns a status
\* outside 2xx or a body that cannot be decoded, ExecuteQuery returns no
\* error of its own but a QueryResult with a non-empty error text and no
\* rows; a result that carries rows is returned only for a 2xx response.
C6_FailuresAreResults ==
    (call.executed /\ Len(Sent) = 1) =>
        /\ FailedReply(call.reply) =>
              /\ call.outcome.fault = ""
              /\ call.outcome.result.Error # ""
              /\ Len(call.outcome.result.Data) = 0
        /\ Len(call.outcome.result.Data) > 0 =>
              call.reply.kind = "http" /\ call.reply.Status \in 200..299

\* the text of the value of the first condition id = v
IdText(q) == Sprint(q.Conditions[First(IdConditions(q))].Value)

\* path with its first {id} replaced by v
Filled(path, v) ==
    With(First({k \in 1..(Len(path) - 3) : SubSeq(path, k, k + 3) = "{id}"}), LAMBDA k :
      SubSeq(path, 1, k - 1) \o v \o SubSeq(path, k + 4, Len(path)))

\* C7: the request of an UPDATE or DELETE that has a condition id = v goes
\* to base address + path with {id} replaced by v when the path has the
\* placeholder, and to base address + path + / + v otherwise; v is never
\* sent as a query parameter.
C7_MutationURL ==
    (/\ call.executed
     /\ call.translation.q.QueryType \in {"UPDATE", "DELETE"}
     /\ IdConditions(call.translation.q) # {}
     /\ Len(Sent) = 1) =>
        /\ DOMAIN Sent[1].URL.Query = {}
        /\ Sent[1].URL.Base =
              call.capability.BaseURL
              \o (IF StrContains(call.capability.Path, "{id}")
                  THEN Filled(call.capability.Path, IdText(call.translation.q))
                  ELSE call.capability.Path \o "/" \o IdText(call.translation.q))

\* a DELETE went to a path that has the placeholder, with the value in it
C7_Replaced ==
    /\ call.executed
    /\ call.translation.q.QueryType = "DELETE"
    /\ call.capability.Path = "/users/{id}"
    /\ IdText(call.translation.q) = "5"
    /\ Len(Sent) = 1
    /\ Sent[1].URL.Base = "https://users.test/users/5"

(***************************************************************************)
(* Properties of discovery and of the front ends                           *)
(***************************************************************************)
\* C8: no two capabilities that ParseCapabilities produces for one API
\* share a table name, so the maps keyed by table name hold every
\* discovered operation: no registration replaces another.
C8_UniqueTableNames ==
    /\ \A c1, c2 \in discovered.capabilities : c1.TableName = c2.TableName => c1 = c2
    /\ \A k \in DOMAIN gateway.registered : gateway.registered[k] = 1
    /\ \A k \in DOMAIN call.registered : call.registered[k] = 1

\* the mutations written against the base resource name, and the table each
\* is to be resolved to
Mutations ==
    [sql \in {"INSERT INTO pet (name, status) VALUES ('Fluffy', 'available')",
              "UPDATE pet SET name = 'Fluffy Jr' WHERE id = 123",
              "DELETE FROM pet WHERE id = 123"} |->
       CASE HasPrefix(sql, "INSERT") -> "pet_post"
         [] HasPrefix(sql, "UPDATE") -> "pet_put"
         [] OTHER -> "pet_delete"]

\* the tables the front end of the call holds
Tables ==
    IF call.by = "server" THEN DOMAIN gateway.capabilities ELSE DOMAIN call.registered

\* C9: the command line and the server resolve a mutation written against
\* the base resource name to the verb-qualified table, and execute it
\* against that capability: INSERT INTO pet against pet_post, UPDATE pet
\* against pet_put, DELETE FROM pet against pet_delete.
C9_MutationResolved ==
    \A sql \in DOMAIN Mutations :
        (call.by \in {"cli", "server"} /\ call.sql = sql /\ Mutations[sql] \in Tables) =>
            /\ call.found
            /\ call.capability.TableName = Mutations[sql]
            /\ call.executed

\* the authentication header of an API configuration
ExpectedAuth(api) ==
    CASE api.Auth.Type = "bearer" -> [Authorization |-> "Bearer " \o api.Auth.Token]
      [] api.Auth.Type = "apikey" -> [h \in {"X-API-Key"} |-> api.Auth.Token]
      [] api.Auth.Type = "basic" -> [Authorization |-> "Basic " \o api.Auth.Token]
      [] OTHER -> <<>>

\* the authentication headers of a request
AuthNames(req) == DOMAIN req.Header \cap {"Authorization", "X-API-Key"}

\* C10: a request that the command line or the server issues for an API
\* configured with bearer, apikey or basic carries exactly one
\* authentication header, built from the token of that API; for the
\* scheme none it carries no authentication header.
C10_AuthHeader ==
    \A i \in 1..Len(config) :
        (/\ call.by \in {"cli", "server"}
         /\ Len(Sent) = 1
         /\ call.capability.BaseURL = config[i].BaseURL) =>
            /\ AuthNames(Sent[1]) = DOMAIN ExpectedAuth(config[i])
            /\ \A h \in AuthNames(Sent[1]) : Sent[1].Header[h] = ExpectedAuth(config[i])[h]

(***************************************************************************)
(* Properties of the mapping of conditions to parameters, of the grammar   *)
(* and of the WHERE clause                                                 *)
(***************************************************************************)
\* the names of the parameters of a capability
ParameterNames(capability) == {p.Name : p \in Elements(capability.Parameters)}

\* C11: a SELECT condition col > v on a capability that has a query
\* parameter named col_gt is sent as col_gt=v in the one GET request,
\* whatever the other parameters of the capability and their order.
C11_RangeParameter ==
    (call.executed /\ call.translation.q.QueryType = "SELECT") =>
        \A c \in Elements(call.translation.q.Conditions) :
            (c.Operator = ">" /\ (c.Column \o "_gt") \in ParameterNames(call.capability)) =>
                /\ Len(Sent) = 1
                /\ Sent[1].Method = "GET"
                /\ (c.Column \o "_gt") \in DOMAIN Sent[1].URL.Query
                /\ Sprint(c.Value) \in Elements(Sent[1].URL.Query[c.Column \o "_gt"])

(***************************************************************************)
(* The server with handlers that run at the same time.  gin runs each      *)
(* request in a goroutine of its own; a handler is at one of the stages of *)
(* handleQuery: bound (the request is decoded), found (the capability and  *)
(* the grammar were read from the maps), parsed (ParseSQL returned), done  *)
(* (the answer is written).  The handlers share the gateway.               *)
(***************************************************************************)
\* the texts that arrive in this specification
ConcurrentTexts ==
    {"SELECT * FROM members WHERE age > 25",
     "SELECT * FROM members WHERE name ILIKE 'bob'",
     "SELECT * FROM members LIMIT 10 OFFSET 2",
     "DROP TABLE users"}

\* the server of the club register starts with idle handlers
ConcurrentInit ==
    /\ Init
    /\ program = "server"
    /\ Len(config) = 1
    /\ config[1].Name = "members"

\* the handler answers: it is done with the call c
answers(h, c) == handlers' = [handlers EXCEPT ![h] = Handler("done", c)]

\* a request arrives at a handler that is free, and is decoded
Accept(h) ==
    /\ gateway.started
    /\ handlers[h].stage \in {"idle", "done"}
    /\ \E sql \in ConcurrentTexts :
          handlers' = [handlers EXCEPT ![h] = Handler("bound", BaseCall("server", sql))]
    /\ UNCHANGED <<program, config, gateway, discovered, input, call>>

\* handleQuery up to the grammar: extractTableName and the two map reads
lookedUp(h, base, tableName) ==
    IF ~tableName.ok
    THEN answers(h, [base EXCEPT !.status = 400,
                                 !.error = "Failed to parse SQL: " \o tableName.err])
    ELSE IF tableName.name \notin DOMAIN gateway.capabilities
    THEN answers(h, [base EXCEPT !.key = tableName.name, !.status = 400,
                                 !.error = "Table '" \o tableName.name \o "' not found"])
    ELSE handlers' = [handlers EXCEPT ![h] =
             Handler("found", Found(base, gateway, tableName.name, gateway.executor))]

Lookup(h) ==
    /\ handlers[h].stage = "bound"
    /\ lookedUp(h, handlers[h].call, extractTableNameSQL(handlers[h].call.sql))
    /\ UNCHANGED <<program, config, gateway, discovered, input, call>>

\* handleQuery at ParseSQL: the translator works on the grammar of the map
parsed(h, translated) ==
    IF ~translated.translation.ok
    THEN answers(h, [translated EXCEPT !.status = 400,
                                       !.error = translated.translation.err])
    ELSE handlers' = [handlers EXCEPT ![h] = Handler("parsed", translated)]

Parse(h) ==
    /\ handlers[h].stage = "found"
    /\ parsed(h, Translated(handlers[h].call,
                            ParseSQL(gateway.grammars[handlers[h].call.key],
                                     handlers[h].call.sql)))
    /\ gateway' = [gateway EXCEPT !.grammars[handlers[h].call.key] =
                       grammarAfterParse(@, handlers[h].call.sql)]
    /\ UNCHANGED <<program, config, discovered, input, call>>

\* handleQuery from ExecuteQuery to the answer
Run(h) ==
    /\ handlers[h].stage = "parsed"
    /\ \E reply \in Replies :
          answers(h, serverResponse(Executed(handlers[h].call, reply)))
    /\ UNCHANGED <<program, config, gateway, discovered, input, call>>

ConcurrentNext ==
    \/ initializeGateway
    \/ \E h \in 1..MaxHandlers : Accept(h)
    \/ \E h \in 1..MaxHandlers : Lookup(h)
    \/ \E h \in 1..MaxHandlers : Parse(h)
    \/ \E h \in 1..MaxHandlers : Run(h)

Concurrent == ConcurrentInit /\ [][ConcurrentNext]_vars

Loading(cfg) ==
    {i \in 1..Len(cfg) : \A view \in Load(cfg[i].SpecURL) : view.loaded /\ view.hasPaths}

\* the keys under which the server registers the tables of the i-th API
TableKeys(cfg, i) ==
    {(IF Len(cfg) > 1 THEN cfg[i].Name \o "_" ELSE "") \o c.TableName :
        c \in UNION {Elements(ParseCapabilities(view, cfg[i].BaseURL, view.order)) :
                       view \in Load(cfg[i].SpecURL)}}

\* initializeGateway has run
Initialised == gateway.started \/ gateway.crashed

\* C13: when the description of one configured API cannot be loaded or
\* parsed, the initialisation of the gateway still completes; the tables of
\* every other API whose description loads are registered, whatever the
\* order of the APIs, and only the tables of the failing API are missing.
C13_IsolatedFailure ==
    (program = "server" /\ Initialised /\ Loading(config) # 1..Len(config)) =>
        /\ gateway.started
        /\ DOMAIN gateway.capabilities = UNION {TableKeys(config, i) : i \in Loading(config)}
        /\ DOMAIN gateway.grammars = DOMAIN gateway.capabilities

(***************************************************************************)
(* Properties of the grammar                                               *)
(***************************************************************************)
\* the parameters of a capability that GenerateGrammar turns into the
\* filterable column col
Deriving(capability, col) ==
    {p \in Elements(capability.Parameters) :
        ~isPaginationParam(p.Name) /\ extractColumnName(p.Name) = col}

\* C14: when two or more parameters of a capability, none of them a paging
\* parameter, derive the same column, the operators the grammar allows for
\* the column are the union of the operators inferred for those parameters,
\* whatever the order of the parameters.
C14_OperatorUnion ==
    call.found =>
        \A col \in DOMAIN call.grammar.WhereClause.AllowedColumns :
            Cardinality(Deriving(call.capability, col)) >= 2 =>
                Elements(call.grammar.WhereClause.AllowedColumns[col])
                  = UNION {Elements(p.Operators) : p \in Deriving(call.capability, col)}

(***************************************************************************)
(* Properties of the WHERE clause                                          *)
(***************************************************************************)
\* the texts whose WHERE clause is score BETWEEN 1 AND 5
BetweenTexts ==
    {"SELECT * FROM members WHERE score BETWEEN 1 AND 5",
     "DELETE FROM members WHERE score BETWEEN 1 AND 5"}

\* the grammar allows the operator op for the column, which is projectable
Allows(g, column, op) ==
    /\ isColumnAllowed(g, column)
    /\ column \in DOMAIN g.WhereClause.AllowedColumns
    /\ contains(g.WhereClause.AllowedColumns[column], op)

\* C15: col BETWEEN a AND b on a filterable column whose operators include
\* BETWEEN is accepted and gives exactly one condition (col, >=, a), the
\* upper bound b appearing nowhere in the ParsedQuery; in the WHERE clause
\* of a SELECT as well as of an UPDATE or DELETE.
C15_BetweenLowerBound ==
    (/\ call.translated
     /\ call.sql \in BetweenTexts
     /\ Allows(call.grammar, "score", "BETWEEN")) =>
        /\ call.translation.ok
        /\ call.translation.q.Conditions =
              <<[Column |-> "score", Operator |-> ">=", Value |-> IntVal(1)]>>
        /\ call.translation.q.Values = <<>>
        /\ DOMAIN call.translation.q.Updates = {}

(***************************************************************************)
(* Properties of the mapping of conditions to parameters                   *)
(***************************************************************************)
\* the suffix tokens recognised for an operator
SuffixTokens(op) ==
    CASE op = ">" -> {"gt"}
      [] op = ">=" -> {"gte", "min"}
      [] op = "<" -> {"lt"}
      [] op = "<=" -> {"lte", "max"}
      [] op = "!=" -> {"ne", "not"}
      [] op = "LIKE" -> {"like", "search", "contains"}
      [] op = "IN" -> {"in"}
      [] OTHER -> {}

\* the parameter p may carry the condition c: its name is the column and
\* its operators include the operator of c, or its name is the column, the
\* separator and a suffix token of the operator (letter case aside)
Satisfies(p, c) ==
    \/ /\ ToLower(p.Name) = ToLower(c.Column)
       /\ contains(p.Operators, c.Operator)
    \/ \E token \in SuffixTokens(c.Operator) :
          ToLower(p.Name) = ToLower(c.Column) \o "_" \o token

\* the parameter its condition c is sent under, when ExecuteQuery maps it
MappedTo(capability, c) ==
    {p \in Elements(capability.Parameters) :
        /\ convertConditionToParam(capability, c).ok
        /\ p.Name = convertConditionToParam(capability, c).name}

\* C16: in a SELECT a condition is mapped to a parameter only if the
\* parameter's name is the column and its operators include the operator,
\* or its name is the column followed by _ and a suffix token of the
\* operator; a parameter without the separator after the column is never
\* matched by pattern, and ExecuteQuery fails for a condition that no
\* parameter satisfies.
C16_MatchRule ==
    (call.executed /\ call.translation.q.QueryType = "SELECT") =>
        \A c \in Elements(call.translation.q.Conditions) :
            /\ \A p \in MappedTo(call.capability, c) : Satisfies(p, c)
            /\ (\A p \in Elements(call.capability.Parameters) : ~Satisfies(p, c)) =>
                  /\ call.outcome.fault # ""
                  /\ Len(Sent) = 0

(***************************************************************************)
(* Properties of the result rows                                           *)
(***************************************************************************)
\* the call returned the rows of a response whose body was decoded
RowsReturned ==
    /\ call.executed
    /\ call.outcome.fault = ""
    /\ call.outcome.result.Error = ""
    /\ call.reply.kind = "http"
    /\ call.reply.Body.j # "invalid"
    /\ extractDataArray(call.reply.Body).ok

\* the records of the response of the call
Records == extractDataArray(call.reply.Body).data

\* the record restricted to the keys named in the column list
Projected(record, columns) ==
    [c \in DOMAIN record \cap Elements(columns) |-> record[c]]

\* C17: projection is applied for SELECT only.  A row of a SELECT has
\* exactly the keys of the response record that the column list names; the
\* rows of an INSERT, UPDATE or DELETE are the response records with all of
\* their keys.
C17_ProjectionSelectOnly ==
    RowsReturned =>
        /\ Len(call.outcome.result.Data) = Len(Records)
        /\ \A i \in 1..Len(Records) :
              call.outcome.result.Data[i] =
                  IF call.translation.q.QueryType = "SELECT"
                  THEN Projected(Records[i], call.translation.q.Columns)
                  ELSE Records[i]

(***************************************************************************)
(* Properties of paging                                                    *)
(***************************************************************************)
\* the names under which the conditions and the ordering of a query are sent
FilterNames(capability, q) ==
    {convertConditionToParam(capability, c).name : c \in Elements(q.Conditions)}
    \cup {findSortParameter(capability)}

\* the value is sent under the name
SentUnder(name, value) ==
    /\ name \in DOMAIN Sent[1].URL.Query
    /\ value \in Elements(Sent[1].URL.Query[name])

\* C18: in a SELECT, LIMIT is sent under exactly the name discovery
\* recorded on the capability as its limit parameter, and OFFSET under
\* exactly the name recorded as its offset or page parameter; when no such
\* name is recorded the bound is not sent, and the query is executed
\* without error.
C18_RecordedPagingNames ==
    (call.executed /\ call.translation.q.QueryType = "SELECT" /\ Len(Sent) = 1) =>
        /\ call.outcome.fault = ""
        /\ (call.translation.q.Limit > 0 /\ call.capability.LimitParam # "") =>
              SentUnder(call.capability.LimitParam, ToString(call.translation.q.Limit))
        /\ (call.translation.q.Offset > 0 /\ call.capability.PageParam # "") =>
              SentUnder(call.capability.PageParam, ToString(call.translation.q.Offset))
        /\ DOMAIN Sent[1].URL.Query \subseteq
              FilterNames(call.capability, call.translation.q)
              \cup ({call.capability.LimitParam, call.capability.PageParam} \ {""})

\* an UPDATE whose WHERE clause joins two atomic conditions with AND
UpdateTwoConditions == "UPDATE users SET name = 'Bob' WHERE id >= 1 AND id <= 9"

\* C19: the WHERE clause of an UPDATE is parsed as that of a SELECT: n
\* atomic conditions joined by AND give n conditions in written order,
\* each with its own column, operator and single literal value.
C19_UpdateWhereConjunction ==
    (/\ call.translated
     /\ call.sql = UpdateTwoConditions
     /\ TrimSuffix(TrimSuffix(call.grammar.TableName, "_put"), "_patch") = "users"
     /\ Allows(call.grammar, "id", ">=")
     /\ Allows(call.grammar, "id", "<=")) =>
        /\ call.translation.ok
        /\ call.translation.q.Conditions =
              <<[Column |-> "id", Operator |-> ">=", Value |-> IntVal(1)],
                [Column |-> "id", Operator |-> "<=", Value |-> IntVal(9)]>>


\* the statements on table members whose WHERE clause is one atomic
\* condition col op value, each with the column and the operator written
AtomicConditions ==
    {[sql |-> "SELECT * FROM members WHERE age > 25",        col |-> "age",  op |-> ">"],
     [sql |-> "SELECT * FROM members WHERE age >= 25",       col |-> "age",  op |-> ">="],
     [sql |-> "SELECT * FROM members WHERE m <= 6",          col |-> "m",    op |-> "<="],
     [sql |-> "SELECT * FROM members WHERE max >= 6",        col |-> "max",  op |-> ">="],
     [sql |-> "SELECT * FROM members WHERE name LIKE 'bob'", col |-> "name", op |-> "LIKE"],
     [sql |-> "SELECT * FROM members WHERE name ILIKE 'bob'", col |-> "name", op |-> "ILIKE"]}

\* the translation holds exactly one condition, on column col with operator op
Recognised(translation, col, op) ==
    /\ translation.ok
    /\ Len(translation.q.Conditions) = 1
    /\ translation.q.Conditions[1].Column = col
    /\ translation.q.Conditions[1].Operator = op

\* C20: each operator of the fixed set is recognised as itself: an atomic
\* condition col op value on a projectable, filterable column yields a
\* Condition with column col and exactly the operator op when the column's
\* allowed set contains op, and is rejected when it does not.
C20_OperatorAsWritten ==
    \A a \in AtomicConditions :
        (/\ call.translated
         /\ call.sql = a.sql
         /\ call.grammar.TableName = "members"
         /\ isColumnAllowed(call.grammar, a.col)
         /\ a.col \in DOMAIN call.grammar.WhereClause.AllowedColumns) =>
            IF Allows(call.grammar, a.col, a.op)
            THEN Recognised(call.translation, a.col, a.op)
            ELSE ~call.translation.ok

(***************************************************************************)
(* Properties of columns, rows, requests and limits                        *)
(***************************************************************************)
\* C21: for every capability whose response columns are known, every column
\* of the derived grammar's filter map is one of the grammar's projectable
\* columns; a projectable column may be missing from the filter map, never
\* the reverse.
C21_FilterableIsProjectable ==
    (call.found /\ Len(call.capability.ResponseColumns) > 0) =>
        \A col \in DOMAIN GenerateGrammar(call.capability).WhereClause.AllowedColumns :
            isColumnAllowed(GenerateGrammar(call.capability), col)


\* the wrapper fields of a record, in the order they are looked at, with
\* their positions
WrapperFields == <<"data", "results", "items", "records", "list">>

\* the elements of a decoded sequence that are structured records, in order
RecordsOf(items) ==
    [i \in 1..Len(SelectSeq(items, LAMBDA x : x.j = "object")) |->
        SelectSeq(items, LAMBDA x : x.j = "object")[i].fields]

\* position k is the first wrapper field of the record that is present and
\* array-valued
FirstArrayField(fields, k) ==
    /\ WrapperFields[k] \in DOMAIN fields
    /\ fields[WrapperFields[k]].j = "array"
    /\ \A m \in 1..(k - 1) :
          WrapperFields[m] \notin DOMAIN fields \/ fields[WrapperFields[m]].j # "array"

\* the rows of a decoded body, as the reshaping rule states them
Reshaped(body) ==
    IF body.j = "array" THEN RecordsOf(body.items)
    ELSE IF \E k \in 1..Len(WrapperFields) : FirstArrayField(body.fields, k)
    THEN RecordsOf(body.fields[WrapperFields[
             CHOOSE k \in 1..Len(WrapperFields) : FirstArrayField(body.fields, k)]].items)
    ELSE <<body.fields>>

\* C22: response reshaping.  A decoded sequence yields one row per element
\* that is a structured record, in order; a decoded single record yields the
\* rows of the first of the fields data, results, items, records, list that
\* is present and array-valued, a present wrapper field that is no array
\* being skipped, and otherwise the whole record as exactly one row.  The
\* rows of the result are these rows, restricted to the query's columns.
C22_Reshaping ==
    RowsReturned =>
        call.outcome.result.Data =
            filterColumns(Reshaped(call.reply.Body), call.translation.q.Columns)

\* a wrapper whose data field is no array was answered, and the rows of its
\* items field were returned
C22_WrapperSkipped ==
    /\ RowsReturned
    /\ call.reply.Body.j = "object"
    /\ "data" \in DOMAIN call.reply.Body.fields
    /\ call.reply.Body.fields["data"].j # "array"
    /\ FirstArrayField(call.reply.Body.fields, 3)
    /\ Len(call.translation.q.Columns) = 0
    /\ call.outcome.result.Data = <<Row>>


\* INSERT statements on table pet, each with the columns it lists and the
\* values it writes
InsertTexts ==
    {[sql     |-> "INSERT INTO pet (name, status) VALUES ('Fluffy', 'available')",
      columns |-> <<"name", "status">>,
      values  |-> <<StrVal("Fluffy"), StrVal("available")>>],
     [sql     |-> "INSERT INTO pet (name, status) VALUES ('Fluffy')",
      columns |-> <<"name", "status">>,
      values  |-> <<StrVal("Fluffy")>>],
     [sql     |-> "INSERT INTO pet (name, status) VALUES ('Rex, Jr')",
      columns |-> <<"name", "status">>,
      values  |-> <<StrVal("Rex, Jr")>>]}

\* C23: every INSERT ParsedQuery that ParseSQL returns has exactly as many
\* Values as Columns, a statement whose counts differ being rejected, so the
\* pairing of the i-th column with the i-th value stays inside Values and the
\* POST body maps each column to the value written at the same position.
C23_InsertPairs ==
    /\ (call.translated /\ call.translation.ok
          /\ call.translation.q.QueryType = "INSERT") =>
           Len(call.translation.q.Values) = Len(call.translation.q.Columns)
    /\ \A a \in InsertTexts :
          (/\ call.translated
           /\ call.sql = a.sql
           /\ TrimSuffix(call.grammar.TableName, "_post") = "pet") =>
              IF Len(a.values) # Len(a.columns)
              THEN ~call.translation.ok
              ELSE (call.translation.ok /\ call.executed /\ Len(Sent) > 0) =>
                      /\ call.translation.q.Columns = a.columns
                      /\ DOMAIN Sent[1].Body.map = Elements(a.columns)
                      /\ \A i \in 1..Len(a.columns) :
                            Sent[1].Body.map[a.columns[i]] = a.values[i]


\* the verbs on which a statement of the kind may be executed
VerbsOf(kind) ==
    CASE kind = "SELECT" -> {"GET"}
      [] kind = "INSERT" -> {"POST"}
      [] kind = "UPDATE" -> {"PUT", "PATCH"}
      [] kind = "DELETE" -> {"DELETE"}
      [] OTHER -> {}

\* C24: the HTTP method of every request that is issued equals the verb of
\* the capability it is issued against: a SELECT is executed only on a GET
\* capability, an INSERT only on POST, an UPDATE only on PUT or PATCH, a
\* DELETE only on DELETE; a statement whose kind does not match the verb is
\* rejected before any request is issued.
C24_MethodIsVerb ==
    \A i \in 1..Len(Sent) :
        /\ Sent[i].Method = call.capability.Method
        /\ call.capability.Method \in VerbsOf(call.translation.q.QueryType)


\* C25: for every capability and the grammar derived from it, every
\* condition of a SELECT that ParseSQL accepts can be mapped by the executor
\* to one of the capability's query parameters: validation success of a
\* WHERE clause implies translation success.
C25_AcceptedIsMappable ==
    (/\ call.translated
     /\ call.translation.ok
     /\ call.translation.q.QueryType = "SELECT"
     /\ call.grammar = GenerateGrammar(call.capability)) =>
        \A c \in Elements(call.translation.q.Conditions) :
            convertConditionToParam(call.capability, c).ok


\* C26: every SELECT ParsedQuery that ParseSQL returns has a limit no
\* greater than the grammar's maximum limit, also when the statement has no
\* LIMIT clause and the grammar's default limit is used; every grammar
\* derived from a capability has a default limit no greater than its maximum.
C26_LimitWithinMaximum ==
    /\ (call.translated /\ call.translation.ok
          /\ call.translation.q.QueryType = "SELECT") =>
           call.translation.q.Limit <= call.grammar.Limit.MaxLimit
    /\ call.found =>
           GenerateGrammar(call.capability).Limit.DefaultLimit
              <= GenerateGrammar(call.capability).Limit.MaxLimit


\* C27: in the server's table registry the key under which a capability and
\* its grammar are registered equals the table name the grammar validates
\* against, so that, also when several APIs are configured and the keys are
\* <api>_<table>, a valid SELECT addressed to a registered key (a key that
\* is one SQL word) passes table validation and is executed.
C27_KeyIsTableName ==
    /\ \A k \in DOMAIN gateway.grammars : gateway.grammars[k].TableName = k
    /\ \A k \in DOMAIN gateway.grammars :
          (call.by = "server" /\ call.sql = SelectAll(k) /\ CharsOf(k) \subseteq WordSet) =>
              /\ call.translated
              /\ call.translation.ok
              /\ call.executed


\* the cause of the failure of a request that was answered with reply
Cause(reply) ==
    IF reply.kind = "error" THEN reply.err
    ELSE "API returned status " \o ToString(reply.Status) \o ": " \o reply.Raw

\* the request failed: a transport fault or an error status
RequestFailed(reply) ==
    reply.kind = "error" \/ (reply.kind = "http" /\ reply.Status >= 400)

\* C28: when the outbound request of a SELECT, UPDATE or DELETE fails by a
\* transport fault or an error status, the error text of the QueryResult
\* carries the underlying cause (the transport error, or the status code and
\* the response body), exactly as for a failing INSERT; the cause is never
\* replaced by a generic no-response message.
C28_CauseReported ==
    (call.executed /\ Len(Sent) = 1 /\ RequestFailed(call.reply)) =>
        /\ call.outcome.fault = ""
        /\ call.outcome.result.Error = "API request failed: " \o Cause(call.reply)
        /\ call.outcome.result.Error # "No response received from API"


\* C29: no outbound request URL holds an unsubstituted path-parameter
\* placeholder {...}: for a capability whose path template has a
\* placeholder, of any name, the executor substitutes it with a value of the
\* query or fails without issuing a request, for SELECT as well as for
\* UPDATE and DELETE.
C29_NoPlaceholderSent ==
    (call.executed /\ call.translation.q.QueryType \in {"SELECT", "UPDATE", "DELETE"}) =>
        \A i \in 1..Len(Sent) :
            /\ ~StrContains(Sent[i].URL.Base, "{")
            /\ ~StrContains(Sent[i].URL.Base, "}")


\* a SELECT whose WHERE clause joins two atomic conditions with OR
SelectWithOr == "SELECT * FROM users WHERE age > 30 OR id = 7"

\* the words that join conditions; no literal of the texts submitted holds one
Connectives == {" OR ", " AND ", " or ", " and "}

\* C30: ParseSQL rejects a statement whose WHERE clause joins two atomic
\* conditions with OR, or with any connective other than the AND keyword; it
\* never returns a ParsedQuery in which the value of a Condition holds the
\* text of a further condition: every value is the single literal written
\* after its operator.
C30_OneLiteralPerCondition ==
    /\ (call.translated /\ call.sql = SelectWithOr /\ call.grammar.TableName = "users") =>
           ~call.translation.ok
    /\ (call.translated /\ call.translation.ok) =>
           \A c \in Elements(call.translation.q.Conditions) :
               c.Value.k = "str" => \A w \in Connectives : ~StrContains(c.Value.s, w)
=============================================================================
